---------------------------- MODULE Spec2Model ----------------------------
(***************************************************************************)
(* Model of the Maha Aastha grievance chatbot backend (src/fastapp.py,     *)
(* src/database.py): the identifier detector, the intent classifier, the   *)
(* ticket store's status lookup, the dialogue engine                       *)
(* process_maha_aastha_query with its session store USER_SESSION_STATE,    *)
(* and the endpoints process_query, submit_rating and export_ratings with  *)
(* the chat history CHAT_HISTORY and the ratings ledger RATINGS_DATA.      *)
(*                                                                         *)
(* A text is a sequence of Unicode code points (the Python str the code    *)
(* works on): 84 is "T", 45 is "-", 2361 is DEVANAGARI LETTER HA.  The     *)
(* character classes below are those of Python's re module on str          *)
(* patterns, restricted to the ASCII and Devanagari blocks, which hold     *)
(* every character of the two supported languages' inputs.                 *)
(***************************************************************************)
EXTENDS Integers, Sequences, FiniteSets, TLC

(***************************************************************************)
(* Characters                                                              *)
(***************************************************************************)

\* [0-9]
AsciiDigits == 48..57
IsAsciiDigit(c) == c \in AsciiDigits

\* [a-zA-Z0-9] (the IGNORECASE flag adds no ASCII or Devanagari character)
AsciiAlnums == (48..57) \cup (65..90) \cup (97..122)
IsAsciiAlnum(c) == c \in AsciiAlnums

\* \d on a str pattern: every Unicode decimal digit (ASCII and Devanagari)
Decimals == (48..57) \cup (2406..2415)
IsDecimal(c) == c \in Decimals

\* \s on a str pattern, and the characters str.strip() removes
Spaces == (9..13) \cup (28..32)
IsSpace(c) == c \in Spaces

\* \w on a str pattern: alphanumerics and "_"; the Devanagari vowel signs,
\* virama and anusvara (2305..2307, 2362..2364, 2366..2383) are not \w
IsWord(c) ==
    \/ IsAsciiAlnum(c)
    \/ c = 95
    \/ c \in (2308..2361) \cup {2365, 2384} \cup (2392..2401)
             \cup (2406..2415) \cup (2417..2431)

\* str.lower() of one character
LowerChar(c) == IF c \in 65..90 THEN c + 32 ELSE c

(***************************************************************************)
(* Strings                                                                 *)
(***************************************************************************)

Lower(s) == [i \in 1..Len(s) |-> LowerChar(s[i])]

Slice(s, i, j) == SubSeq(s, i, j)

\* the first index from i on, and the last index up to i, of a character
\* that is not whitespace (Len(s) + 1 and 0 when there is none)
RECURSIVE FirstNonSpace(_, _)
FirstNonSpace(s, i) ==
    IF i > Len(s) \/ ~IsSpace(s[i]) THEN i ELSE FirstNonSpace(s, i + 1)

RECURSIVE LastNonSpace(_, _)
LastNonSpace(s, i) ==
    IF i < 1 \/ ~IsSpace(s[i]) THEN i ELSE LastNonSpace(s, i - 1)

\* str.strip()
Strip(s) == SubSeq(s, FirstNonSpace(s, 1), LastNonSpace(s, Len(s)))

\* pat occurs in s starting at index i
OccursAt(s, pat, i) ==
    /\ i >= 1
    /\ i + Len(pat) - 1 <= Len(s)
    /\ \A k \in 1..Len(pat) : s[i + k - 1] = pat[k]

\* the Python test "pat in s"
Contains(s, pat) == \E i \in 1..(Len(s) - Len(pat) + 1) : OccursAt(s, pat, i)

\* \b between s[i] and s[i+1] (i = 0 is the start, i = Len(s) the end)
WordAt(s, i) == i >= 1 /\ i <= Len(s) /\ IsWord(s[i])
Boundary(s, i) == WordAt(s, i) # WordAt(s, i + 1)

\* re.search(r'\bpat\b', s) for a literal pat
SearchWord(s, pat) ==
    \E i \in 1..(Len(s) - Len(pat) + 1) :
        /\ OccursAt(s, pat, i)
        /\ Boundary(s, i - 1)
        /\ Boundary(s, i + Len(pat) - 1)

\* the last index of the longest run of characters of the class that
\* starts at i (i - 1 when s[i] is not in the class)
RunEnd(s, i, class) ==
    LET ends == {j \in (i - 1)..Len(s) : \A k \in i..j : s[k] \in class}
    IN  CHOOSE j \in ends : \A k \in ends : j >= k

SetMin(S) == CHOOSE x \in S : \A y \in S : x <= y

\* a finite set of integers as the increasing sequence of its elements
RECURSIVE SortedSeq(_)
SortedSeq(S) ==
    IF S = {} THEN <<>>
    ELSE LET m == SetMin(S) IN <<m>> \o SortedSeq(S \ {m})

\* re.sub of one character class by '': s without the characters not kept
Filter(s, keep) ==
    LET idx == SortedSeq({i \in 1..Len(s) : s[i] \in keep})
    IN  [k \in 1..Len(idx) |-> s[idx[k]]]

\* Python values that may be absent, and calls that may raise
None == [tag |-> "none", v |-> <<>>, exc |-> ""]
Value(x) == [tag |-> "value", v |-> x, exc |-> ""]
Raise(e) == [tag |-> "raise", v |-> <<>>, exc |-> e]

(***************************************************************************)
(* IntentClassifier                                                        *)
(***************************************************************************)

\* fastapp.py 423..426: the tokens of the \b...\b patterns, in list order
yes_patterns_en == <<
    \* yes
    <<121, 101, 115>>,
    \* y
    <<121>>,
    \* yeah
    <<121, 101, 97, 104>>,
    \* yep
    <<121, 101, 112>>
>>

no_patterns_en == <<
    \* no
    <<110, 111>>,
    \* n
    <<110>>,
    \* nope
    <<110, 111, 112, 101>>
>>

yes_patterns_mr == <<
    \* hoy (HA, vowel sign O, YA)
    <<2361, 2379, 2351>>,
    \* ho (HA, vowel sign O)
    <<2361, 2379>>
>>

no_patterns_mr == <<
    \* nahi (NA, vowel sign AA, HA, vowel sign II)
    <<2344, 2366, 2361, 2368>>,
    \* na (NA, vowel sign AA)
    <<2344, 2366>>
>>

AnySearchWord(s, pats) == \E k \in 1..Len(pats) : SearchWord(s, pats[k])

detect_yes_no_response(raw, language) ==
    LET text == Lower(Strip(raw))
    IN  IF AnySearchWord(text, yes_patterns_en \o yes_patterns_mr) THEN "yes"
        ELSE IF AnySearchWord(text, no_patterns_en \o no_patterns_mr) THEN "no"
        ELSE "unknown"

\* fastapp.py 388: the two English phrases
status_patterns_en == <<
    \* would you like to check the status of your ticket
    <<119, 111, 117, 108, 100, 32, 121, 111, 117, 32, 108, 105, 107,
      101, 32, 116, 111, 32, 99, 104, 101, 99, 107, 32, 116, 104,
      101, 32, 115, 116, 97, 116, 117, 115, 32, 111, 102, 32, 121,
      111, 117, 114, 32, 116, 105, 99, 107, 101, 116>>,
    \* check status
    <<99, 104, 101, 99, 107, 32, 115, 116, 97, 116, 117, 115>>
>>

\* fastapp.py 390..396: the five Marathi phrases
status_patterns_mr == <<
    \* aapan maha aastha takrar nivaran pranalimadhye nondavalelya tikitachi sthiti tapasu icchita ka
    <<2310, 2346, 2339, 32, 2350, 2361, 2366, 32, 2310, 2360, 2381,
      2341, 2366, 32, 2340, 2325, 2381, 2352, 2366, 2352, 32, 2344,
      2367, 2357, 2366, 2352, 2339, 32, 2346, 2381, 2352, 2339, 2366,
      2354, 2368, 2350, 2343, 2381, 2351, 2375, 32, 2344, 2379, 2306,
      2342, 2357, 2354, 2375, 2354, 2381, 2351, 2366, 32, 2340, 2367,
      2325, 2368, 2335, 2330, 2368, 32, 2360, 2381, 2341, 2367, 2340,
      2368, 32, 2340, 2346, 2366, 2360, 2370, 32, 2311, 2330, 2381,
      2331, 2367, 2340, 2366, 32, 2325, 2366>>,
    \* tikitachi sthiti tapasu icchita ka
    <<2340, 2367, 2325, 2368, 2335, 2330, 2368, 32, 2360, 2381, 2341,
      2367, 2340, 2368, 32, 2340, 2346, 2366, 2360, 2370, 32, 2311,
      2330, 2381, 2331, 2367, 2340, 2366, 32, 2325, 2366>>,
    \* sthiti tapasu icchita ka
    <<2360, 2381, 2341, 2367, 2340, 2368, 32, 2340, 2346, 2366, 2360,
      2370, 32, 2311, 2330, 2381, 2331, 2367, 2340, 2366, 32, 2325,
      2366>>,
    \* tikitachi sthiti
    <<2340, 2367, 2325, 2368, 2335, 2330, 2368, 32, 2360, 2381, 2341,
      2367, 2340, 2368>>,
    \* sthiti tapasa
    <<2360, 2381, 2341, 2367, 2340, 2368, 32, 2340, 2346, 2366, 2360,
      2366>>
>>

detect_exact_status_question(text, language) ==
    LET text_lower == Strip(Lower(text))
    IN  IF language = "en"
        THEN \E k \in 1..Len(status_patterns_en) :
                 Contains(text_lower, status_patterns_en[k])
        ELSE \E k \in 1..Len(status_patterns_mr) :
                 Contains(text, status_patterns_mr[k])

\* fastapp.py 649: "feedback" and its Marathi counterpart
feedback_keywords == <<
    \* feedback
    <<102, 101, 101, 100, 98, 97, 99, 107>>,
    \* abhipray
    <<2309, 2349, 2367, 2346, 2381, 2352, 2366, 2351>>
>>

\* fastapp.py 667: the registration keywords
registration_keywords == <<
    \* register
    <<114, 101, 103, 105, 115, 116, 101, 114>>,
    \* ticket
    <<116, 105, 99, 107, 101, 116>>,
    \* complaint
    <<99, 111, 109, 112, 108, 97, 105, 110, 116>>,
    \* tikit
    <<2340, 2367, 2325, 2368, 2335>>,
    \* nondavu
    <<2344, 2379, 2306, 2342, 2357, 2370>>,
    \* shikayat
    <<2358, 2367, 2325, 2366, 2351, 2340>>
>>

HasFeedbackKeyword(input_text) ==
    \E k \in 1..Len(feedback_keywords) :
        Contains(Lower(input_text), feedback_keywords[k])

HasRegistrationKeyword(input_text) ==
    \E k \in 1..Len(registration_keywords) :
        Contains(Lower(input_text), registration_keywords[k])

(***************************************************************************)
(* IdentifierDetector                                                      *)
(***************************************************************************)

\* {6,} in the three validation patterns (fastapp.py 320..322)
MinTicketSuffix == 6

TKT_DASH == <<116, 107, 116, 45>>   \* "tkt-", matched with re.IGNORECASE
TKT == <<116, 107, 116>>            \* "tkt"

\* r'\b(TKT-[a-zA-Z0-9]+)\b' matching at index i: the index of the last
\* character matched, 0 when there is no match at i.  The greedy run is
\* followed by \b only at its full length (a shorter run ends between two
\* \w characters).
TicketMatch1(s, i) ==
    LET e == RunEnd(s, i + 4, AsciiAlnums)
    IN  IF /\ Boundary(s, i - 1)
           /\ OccursAt(Lower(s), TKT_DASH, i)
           /\ e >= i + 4
           /\ Boundary(s, e)
        THEN e ELSE 0

\* r'\b(TKT[0-9a-zA-Z]+)\b'
TicketMatch2(s, i) ==
    LET e == RunEnd(s, i + 3, AsciiAlnums)
    IN  IF /\ Boundary(s, i - 1)
           /\ OccursAt(Lower(s), TKT, i)
           /\ e >= i + 3
           /\ Boundary(s, e)
        THEN e ELSE 0

\* r'\b([0-9]{6,})\b'
TicketMatch3(s, i) ==
    LET e == RunEnd(s, i, AsciiDigits)
    IN  IF /\ Boundary(s, i - 1)
           /\ e - i + 1 >= 6
           /\ Boundary(s, e)
        THEN e ELSE 0

\* re.search: group 1 of the leftmost match of one pattern, or None
\* (ends[i] is the pattern's match at index i)
SearchTicket(s, ends) ==
    LET starts == {i \in 1..Len(s) : ends[i] # 0}
    IN  IF starts = {} THEN None
        ELSE LET i == SetMin(starts) IN Value(SubSeq(s, i, ends[i]))

detect_ticket_id(text) ==
    LET m1 == SearchTicket(text, [i \in 1..Len(text) |->
                                    TicketMatch1(text, i)])
        m2 == SearchTicket(text, [i \in 1..Len(text) |->
                                    TicketMatch2(text, i)])
        m3 == SearchTicket(text, [i \in 1..Len(text) |->
                                    TicketMatch3(text, i)])
    IN  IF m1.tag = "value" THEN m1
        ELSE IF m2.tag = "value" THEN m2
        ELSE m3

AllIn(s, class) == \A k \in 1..Len(s) : s[k] \in class

validate_ticket_id_format(ticket_id) ==
    LET t == Strip(ticket_id)
        n == Len(t)
    IN  \/ /\ n >= 4 + MinTicketSuffix
           /\ OccursAt(Lower(t), TKT_DASH, 1)
           /\ AllIn(SubSeq(t, 5, n), AsciiAlnums)
        \/ /\ n >= 3 + MinTicketSuffix
           /\ OccursAt(Lower(t), TKT, 1)
           /\ AllIn(SubSeq(t, 4, n), AsciiAlnums)
        \/ /\ n >= MinTicketSuffix
           /\ AllIn(t, AsciiDigits)

\* the characters re.sub(r'[^\d+\s]', '', text) keeps
KeepMobile == Decimals \cup {43} \cup Spaces

\* the length of a mobile number (fastapp.py 349, 358)
MobileLen == 10

\* [6-9]
IsMobileLead(c) == c \in 54..57

\* [6-9]\d{9}\b matching at index j
Number10(c, j) ==
    /\ j >= 1
    /\ j + MobileLen - 1 <= Len(c)
    /\ IsMobileLead(c[j])
    /\ \A k \in 1..(MobileLen - 1) : IsDecimal(c[j + k])
    /\ Boundary(c, j + MobileLen - 1)

\* A match object: the index of its last character (0: no match), group 0,
\* groups 1 and 2 (None when the group took no part) and the number of
\* groups the pattern has.
NoMatch == [end |-> 0, g0 |-> <<>>, g1 |-> None, g2 |-> None, ngroups |-> 0]

\* r'\b(\+91[\s-]?)?([6-9]\d{9})\b' matching at index i
MobileMatch1(c, i) ==
    LET plus91 == /\ i + 2 <= Len(c)
                  /\ c[i] = 43 /\ c[i + 1] = 57 /\ c[i + 2] = 49
        sep == IF /\ i + 3 <= Len(c)
                  /\ (IsSpace(c[i + 3]) \/ c[i + 3] = 45)
               THEN 1 ELSE 0
        j == i + 3 + sep
    IN  IF ~Boundary(c, i - 1) THEN NoMatch
        ELSE IF plus91 /\ Number10(c, j)
        THEN [end |-> j + MobileLen - 1,
              g0 |-> SubSeq(c, i, j + MobileLen - 1),
              g1 |-> Value(SubSeq(c, i, j - 1)),
              g2 |-> Value(SubSeq(c, j, j + MobileLen - 1)),
              ngroups |-> 2]
        ELSE IF Number10(c, i)
        THEN [end |-> i + MobileLen - 1,
              g0 |-> SubSeq(c, i, i + MobileLen - 1),
              g1 |-> None,
              g2 |-> Value(SubSeq(c, i, i + MobileLen - 1)),
              ngroups |-> 2]
        ELSE NoMatch

\* r'\b([6-9]\d{9})\b'
MobileMatch2(c, i) ==
    IF Boundary(c, i - 1) /\ Number10(c, i)
    THEN [end |-> i + MobileLen - 1,
          g0 |-> SubSeq(c, i, i + MobileLen - 1),
          g1 |-> Value(SubSeq(c, i, i + MobileLen - 1)),
          g2 |-> None,
          ngroups |-> 1]
    ELSE NoMatch

\* r'\b(0\d{10})\b'
MobileMatch3(c, i) ==
    IF /\ Boundary(c, i - 1)
       /\ i + MobileLen <= Len(c)
       /\ c[i] = 48
       /\ \A k \in 1..MobileLen : IsDecimal(c[i + k])
       /\ Boundary(c, i + MobileLen)
    THEN [end |-> i + MobileLen,
          g0 |-> SubSeq(c, i, i + MobileLen),
          g1 |-> Value(SubSeq(c, i, i + MobileLen)),
          g2 |-> None,
          ngroups |-> 1]
    ELSE NoMatch

\* re.finditer: the non-overlapping matches from index i on, left to right;
\* table[i] is the pattern's match at index i
RECURSIVE FindIterFrom(_, _)
FindIterFrom(table, i) ==
    IF i > Len(table) THEN <<>>
    ELSE IF table[i].end # 0
    THEN <<table[i]>> \o FindIterFrom(table, table[i].end + 1)
    ELSE FindIterFrom(table, i + 1)

FindIter(table) == FindIterFrom(table, 1)

\* fastapp.py 342..347: the number taken from one match.  match.group(2)
\* is evaluated when group 1 is non-empty, and raises IndexError on a
\* pattern that has one group only.
MobileOfMatch(m) ==
    IF m.g1.tag = "value"
    THEN IF m.ngroups < 2 THEN Raise("IndexError")
         ELSE IF m.g2.tag = "value" THEN Value(m.g2.v)
         ELSE Value(m.g1.v)
    ELSE Value(Tail(m.g0))

\* fastapp.py 341..350: the loop over one pattern's matches
RECURSIVE ScanMatches(_)
ScanMatches(ms) ==
    IF ms = <<>> THEN None
    ELSE LET mobile == MobileOfMatch(Head(ms))
         IN  IF mobile.tag = "raise" THEN mobile
             ELSE IF Len(mobile.v) = MobileLen /\ IsMobileLead(mobile.v[1])
             THEN mobile
             ELSE ScanMatches(Tail(ms))

detect_mobile_number(text) ==
    LET clean_text == Filter(text, KeepMobile)
        r1 == ScanMatches(FindIter([i \in 1..Len(clean_text) |->
                                       MobileMatch1(clean_text, i)]))
        r2 == ScanMatches(FindIter([i \in 1..Len(clean_text) |->
                                       MobileMatch2(clean_text, i)]))
        r3 == ScanMatches(FindIter([i \in 1..Len(clean_text) |->
                                       MobileMatch3(clean_text, i)]))
    IN  IF r1.tag # "none" THEN r1
        ELSE IF r2.tag # "none" THEN r2
        ELSE r3

\* validate_mobile_number_format without the test of the leading digit
validate_mobile_number_format_any_lead(mobile_number) ==
    LET digits_only == Filter(mobile_number, Decimals)
        n == Len(digits_only)
    IN  n \in {MobileLen, MobileLen + 1, MobileLen + 2}

validate_mobile_number_format(mobile_number) ==
    LET digits_only == Filter(mobile_number, Decimals)
        n == Len(digits_only)
    IN  \/ n = MobileLen /\ IsMobileLead(digits_only[1])
        \/ /\ n = MobileLen + 2
           /\ digits_only[1] = 57 /\ digits_only[2] = 49
           /\ IsMobileLead(digits_only[3])
        \/ /\ n = MobileLen + 1
           /\ digits_only[1] = 48
           /\ IsMobileLead(digits_only[2])

\* The result (identifier, type) of detect_ticket_id_or_mobile: tag "value"
\* with the identifier in v, tag "none" for (None, None), tag "raise" when
\* the call ends in an exception.
NoIdentifier == [tag |-> "none", v |-> <<>>, exc |-> "", type |-> "none"]

detect_ticket_id_or_mobile(text) ==
    LET ticket_id == detect_ticket_id(text)
        mobile_number == detect_mobile_number(text)
    IN  IF ticket_id.tag = "value" /\ validate_ticket_id_format(ticket_id.v)
        THEN [tag |-> "value", v |-> ticket_id.v, exc |-> "",
              type |-> "ticket_id"]
        ELSE IF mobile_number.tag = "raise"
        THEN [tag |-> "raise", v |-> <<>>, exc |-> mobile_number.exc,
              type |-> "none"]
        ELSE IF /\ mobile_number.tag = "value"
                /\ validate_mobile_number_format(mobile_number.v)
        THEN [tag |-> "value", v |-> mobile_number.v, exc |-> "",
              type |-> "mobile_number"]
        ELSE NoIdentifier

(***************************************************************************)
(* The input texts of the model.  A text is named by itself when it is     *)
(* ASCII and by "mr:" and a transliteration when it is Marathi; InputText  *)
(* gives the characters of each.                                           *)
(***************************************************************************)

InputText ==
    "TKT-ab12cd" :> <<84, 75, 84, 45, 97, 98, 49, 50, 99, 100>> @@
    "9876543210" :> <<57, 56, 55, 54, 53, 52, 51, 50, 49, 48>> @@
    "98765-43210" :> <<57, 56, 55, 54, 53, 45, 52, 51, 50, 49, 48>> @@
    "1+91-98765-43210" :> <<49, 43, 57, 49, 45, 57, 56, 55, 54, 53, 45, 52, 51, 50,
          49, 48>> @@
    "TKT-12" :> <<84, 75, 84, 45, 49, 50>> @@
    "check status" :> <<99, 104, 101, 99, 107, 32, 115, 116, 97, 116, 117, 115>> @@
    "check status TKT-ab12cd" :> <<99, 104, 101, 99, 107, 32, 115, 116, 97, 116, 117, 115,
          32, 84, 75, 84, 45, 97, 98, 49, 50, 99, 100>> @@
    "check status TKT-12" :> <<99, 104, 101, 99, 107, 32, 115, 116, 97, 116, 117, 115,
          32, 84, 75, 84, 45, 49, 50>> @@
    "mr:sthiti tapasa" :> <<2360, 2381, 2341, 2367, 2340, 2368, 32, 2340, 2346, 2366,
          2360, 2366>> @@
    "yes" :> <<121, 101, 115>> @@
    "no" :> <<110, 111>> @@
    "mr:hoy" :> <<2361, 2379, 2351>> @@
    "feedback" :> <<102, 101, 101, 100, 98, 97, 99, 107>> @@
    "no feedback" :> <<110, 111, 32, 102, 101, 101, 100, 98, 97, 99, 107>> @@
    "0-12345-67890" :>
        <<48, 45, 49, 50, 51, 52, 53, 45, 54, 55, 56, 57, 48>> @@
    "check status 0-12345-67890" :>
        <<99, 104, 101, 99, 107, 32, 115, 116, 97, 116, 117, 115, 32, 48,
        45, 49, 50, 51, 52, 53, 45, 54, 55, 56, 57, 48>> @@
    "feedback 0-12345-67890" :>
        <<102, 101, 101, 100, 98, 97, 99, 107, 32, 48, 45, 49, 50, 51, 52,
        53, 45, 54, 55, 56, 57, 48>> @@
    "mr:abhipray" :> <<2309, 2349, 2367, 2346, 2381, 2352, 2366, 2351>> @@
    "register" :> <<114, 101, 103, 105, 115, 116, 101, 114>> @@
    "yes register" :> <<121, 101, 115, 32, 114, 101, 103, 105, 115, 116, 101,
          114>> @@
    "no ticket" :> <<110, 111, 32, 116, 105, 99, 107, 101, 116>> @@
    "xyz" :> <<120, 121, 122>>

TextNames == DOMAIN InputText

SUPPORTED_LANGUAGES == {"en", "mr"}

\* The classifications of each input text, computed once.
Identifier == [t \in TextNames |-> detect_ticket_id_or_mobile(InputText[t])]

YesNo == [t \in TextNames |->
            [l \in SUPPORTED_LANGUAGES |->
                detect_yes_no_response(InputText[t], l)]]

StatusQuestion == [t \in TextNames |->
            [l \in SUPPORTED_LANGUAGES |->
                detect_exact_status_question(InputText[t], l)]]

FeedbackKeyword == [t \in TextNames |-> HasFeedbackKeyword(InputText[t])]

RegistrationKeyword ==
    [t \in TextNames |-> HasRegistrationKeyword(InputText[t])]

(***************************************************************************)
(* TicketStore: the rows of public.grievancess and the status lookup       *)
(***************************************************************************)

\* The rows that may be in the table: the ticket code, the mobile number,
\* the status and the creation time of each.
RowA == [ticket |-> <<84, 75, 84, 45, 97, 98, 49, 50, 99, 100>>,
         mobile_number |-> <<57, 56, 55, 54, 53, 52, 51, 50, 49, 48>>,
         status |-> "Resolved", created_at |-> 1]

RowB == [ticket |-> <<84, 75, 84, 45, 65, 66, 49, 50, 67, 68, 57>>,
         mobile_number |-> <<57, 49, 50, 51, 52, 53, 54, 55, 56, 57>>,
         status |-> "Open", created_at |-> 2]

TicketRows == {RowA, RowB}

VARIABLES
    phase,               \* "starting" until lifespan's startup has run
    pool,                \* db_manager.pool: "none" or "open"
    db_up,               \* whether the database server answers
    rows,                \* the rows of public.grievancess
    USER_SESSION_STATE,  \* session id -> [stage, language]
    last,                \* the engine call being answered: input and result
    CHAT_HISTORY,        \* session id -> exchanges, the newest first
    RATINGS_DATA,        \* the ratings ledger, in order of submission
    response,            \* the HTTP request being answered and its response
    probe,               \* a text handed to the identifier detector
    calls                \* the engine calls that run concurrently

vars ==
    <<phase, pool, db_up, rows, USER_SESSION_STATE, last, CHAT_HISTORY,
      RATINGS_DATA, response, probe, calls>>
api_vars == <<CHAT_HISTORY, RATINGS_DATA, response, probe, calls>>
store_vars == <<pool, db_up, rows>>

NoRow == [ticket |-> <<>>, mobile_number |-> <<>>, status |-> "",
          created_at |-> 0]

\* ticket ILIKE '%identifier%' (a validated identifier holds no LIKE
\* wildcard)
ILike(ticket, identifier) == Contains(Lower(ticket), Lower(identifier))

\* database.py 271..283: the newest row that matches the identifier
FetchRow(identifier) ==
    LET matching == {r \in rows : \/ r.ticket = identifier
                                  \/ ILike(r.ticket, identifier)
                                  \/ r.mobile_number = identifier}
    IN  IF matching = {} THEN [tag |-> "none", row |-> NoRow]
        ELSE [tag |-> "value",
              row |-> CHOOSE r \in matching :
                          \A q \in matching : q.created_at <= r.created_at]

\* What the store does with a lookup: there is no pool, acquiring a
\* connection or running the query raises, or the query is answered.
StoreCondition ==
    IF pool = "none" THEN "pool_missing"
    ELSE IF ~db_up THEN "query_raised"
    ELSE "reachable"

\* DatabaseManager.get_ticket_status: every exception of the query is
\* caught inside and turned into None
get_ticket_status(identifier) ==
    IF pool = "none" THEN [tag |-> "none", row |-> NoRow]
    ELSE IF ~db_up THEN [tag |-> "none", row |-> NoRow]
    ELSE FetchRow(Strip(identifier))

(***************************************************************************)
(* ResponseCatalog: a reply is the message it is built from, its language  *)
(* and the values formatted into it.                                       *)
(***************************************************************************)

Msg(kind, language) ==
    [kind |-> kind, lang |-> language, ticket |-> <<>>, status |-> "",
     mobile |-> <<>>]

NoReply == Msg("none", "")

\* format_simple_ticket_status, the mobile-number note when the record was
\* found by mobile number, and the track_ticket_help footer
StatusResponse(ticket_data, identifier, identifier_type, language) ==
    [kind |-> "ticket_status", lang |-> language,
     ticket |-> ticket_data.ticket, status |-> ticket_data.status,
     mobile |-> IF identifier_type = "mobile_number" THEN identifier
                ELSE <<>>]

\* fastapp.py 561, 563 (not_found_kind "mobile_not_found_check") and 597,
\* 599, 635, 637 ("mobile_not_found"): the message naming the number
MobileNotFound(not_found_kind, identifier, language) ==
    [kind |-> not_found_kind, lang |-> language, ticket |-> <<>>,
     status |-> "", mobile |-> identifier]

\* The try block around a lookup: the status, a not-found message, or the
\* database-error message when the lookup raises.
LookupReply(ticket_data, identifier, identifier_type, language, kind) ==
    IF ticket_data.tag = "raise" THEN Msg("database_error", language)
    ELSE IF ticket_data.tag = "value"
    THEN StatusResponse(ticket_data.row, identifier, identifier_type,
                        language)
    ELSE IF identifier_type = "mobile_number"
    THEN MobileNotFound(kind, identifier, language)
    ELSE Msg("ticket_not_found", language)

get_initial_response_with_status_option(language) ==
    Msg("initial_menu", language)

get_feedback_question(language) == Msg("feedback_question", language)

get_rating_request(language) == Msg("rating_request", language)

(***************************************************************************)
(* DialogueEngine                                                          *)
(***************************************************************************)

Stages == {"initial", "awaiting_response", "registration_info",
           "waiting_for_ticket_id", "status_shown", "feedback_question",
           "rating_request", "completed"}

\* The result of one engine call: it returned a reply or raised, the
\* session store it leaves, and whether it called the ticket store.
Returned(reply, sessions, looked_up) ==
    [outcome |-> "returned", exc |-> "", reply |-> reply,
     sessions |-> sessions, lookup |-> looked_up]

Raised(exc, sessions) ==
    [outcome |-> "raised", exc |-> exc, reply |-> NoReply,
     sessions |-> sessions, lookup |-> FALSE]

\* fastapp.py 577..612 and 615..647: the lookup of the status-question and
\* waiting_for_ticket_id branches; no_identifier is what the branch does
\* when the text holds no valid identifier
StageLookupOf(d, session_id, language, sessions, no_identifier) ==
    LET ticket_data == get_ticket_status(d.v)
    IN  IF d.tag = "raise" THEN Raised(d.exc, sessions)
        ELSE IF /\ d.tag = "value"
                /\ \/ validate_ticket_id_format(d.v)
                   \/ validate_mobile_number_format(d.v)
        THEN Returned(
                 LookupReply(ticket_data, d.v, d.type, language,
                             "mobile_not_found"),
                 IF ticket_data.tag = "value"
                 THEN [sessions EXCEPT ![session_id].stage = "status_shown"]
                 ELSE sessions,
                 TRUE)
        ELSE no_identifier

\* (the branch detects the identifier of the text once more)
StageLookup(input_text, session_id, language, sessions, no_identifier) ==
    StageLookupOf(Identifier[input_text], session_id, language, sessions,
                  no_identifier)

\* the registration branch and the fallback, were the stage a field shared
\* by the sessions and not one of the session of the call
RegistrationOrFallback_shared(input_text, session_id, language, sessions) ==
    LET response_type == YesNo[input_text][language]
        SetStage(st) == [s \in DOMAIN sessions |->
                            [sessions[s] EXCEPT !.stage = st]]
    IN  IF \/ sessions[session_id].stage = "initial"
           \/ RegistrationKeyword[input_text]
        THEN IF response_type = "yes"
             THEN Returned(Msg("yes_response", language),
                           SetStage("registration_info"), FALSE)
             ELSE IF response_type = "no"
             THEN Returned(get_feedback_question(language),
                           SetStage("feedback_question"), FALSE)
             ELSE Returned(get_initial_response_with_status_option(language),
                           SetStage("awaiting_response"), FALSE)
        ELSE Returned(get_initial_response_with_status_option(language),
                      sessions, FALSE)

\* fastapp.py 663..681: the registration branch and the fallback
RegistrationOrFallback(input_text, session_id, language, sessions) ==
    LET response_type == YesNo[input_text][language]
        SetStage(st) == [sessions EXCEPT ![session_id].stage = st]
    IN  IF \/ sessions[session_id].stage = "initial"
           \/ RegistrationKeyword[input_text]
        THEN IF response_type = "yes"
             THEN Returned(Msg("yes_response", language),
                           SetStage("registration_info"), FALSE)
             ELSE IF response_type = "no"
             THEN Returned(get_feedback_question(language),
                           SetStage("feedback_question"), FALSE)
             ELSE Returned(get_initial_response_with_status_option(language),
                           SetStage("awaiting_response"), FALSE)
        ELSE Returned(get_initial_response_with_status_option(language),
                      sessions, FALSE)

\* the feedback branches, were a declined feedback to start the session
\* over
FeedbackBranches_restart(input_text, session_id, language, sessions) ==
    LET response_type == YesNo[input_text][language]
        SetStage(st) == [sessions EXCEPT ![session_id].stage = st]
    IN  IF FeedbackKeyword[input_text]
        THEN Returned(get_feedback_question(language),
                      SetStage("feedback_question"), FALSE)
        ELSE IF sessions[session_id].stage = "feedback_question"
        THEN IF response_type = "yes"
             THEN Returned(get_rating_request(language),
                           SetStage("rating_request"), FALSE)
             ELSE IF response_type = "no"
             THEN Returned(Msg("no_response", language),
                           SetStage("initial"), FALSE)
             ELSE Returned(Msg("help_text", language), sessions, FALSE)
        ELSE RegistrationOrFallback(input_text, session_id, language,
                                    sessions)

\* fastapp.py 649..661: the feedback keyword and the feedback_question stage
FeedbackBranches(input_text, session_id, language, sessions) ==
    LET response_type == YesNo[input_text][language]
        SetStage(st) == [sessions EXCEPT ![session_id].stage = st]
    IN  IF FeedbackKeyword[input_text]
        THEN Returned(get_feedback_question(language),
                      SetStage("feedback_question"), FALSE)
        ELSE IF sessions[session_id].stage = "feedback_question"
        THEN IF response_type = "yes"
             THEN Returned(get_rating_request(language),
                           SetStage("rating_request"), FALSE)
             ELSE IF response_type = "no"
             THEN Returned(Msg("no_response", language),
                           SetStage("completed"), FALSE)
             ELSE Returned(Msg("help_text", language), sessions, FALSE)
        ELSE RegistrationOrFallback(input_text, session_id, language,
                                    sessions)

\* the engine behind the identifier short-circuit, were it to enter the
\* session in the session store at every call and not only at the first
SessionBranches_recreate(input_text, session_id, language, sessions) ==
    FeedbackBranches(input_text, session_id, language,
        [s \in DOMAIN sessions \cup {session_id} |->
            IF s = session_id
            THEN [stage |-> "initial", language |-> language]
            ELSE sessions[s]])

\* the engine behind the identifier short-circuit, were the feedback
\* keyword looked for before the stage waiting_for_ticket_id
SessionBranches_feedback_first(input_text, session_id, language, sessions) ==
    LET created == IF session_id \in DOMAIN sessions THEN sessions
                   ELSE sessions @@
                        (session_id :> [stage |-> "initial",
                                        language |-> language])
    IN  IF StatusQuestion[input_text][language]
        THEN StageLookup(input_text, session_id, language, created,
                 Returned(Msg("ticket_id_prompt", language),
                          [created EXCEPT
                              ![session_id].stage = "waiting_for_ticket_id"],
                          FALSE))
        ELSE IF /\ created[session_id].stage = "waiting_for_ticket_id"
                /\ ~FeedbackKeyword[input_text]
        THEN StageLookup(input_text, session_id, language, created,
                 Returned(Msg("provide_valid_identifier", language),
                          created, FALSE))
        ELSE FeedbackBranches(input_text, session_id, language, created)

\* fastapp.py 570..681: the engine behind the identifier short-circuit
SessionBranches(input_text, session_id, language, sessions) ==
    LET created == IF session_id \in DOMAIN sessions THEN sessions
                   ELSE sessions @@
                        (session_id :> [stage |-> "initial",
                                        language |-> language])
    IN  IF StatusQuestion[input_text][language]
        THEN StageLookup(input_text, session_id, language, created,
                 Returned(Msg("ticket_id_prompt", language),
                          [created EXCEPT
                              ![session_id].stage = "waiting_for_ticket_id"],
                          FALSE))
        ELSE IF created[session_id].stage = "waiting_for_ticket_id"
        THEN StageLookup(input_text, session_id, language, created,
                 Returned(Msg("provide_valid_identifier", language),
                          created, FALSE))
        ELSE FeedbackBranches(input_text, session_id, language, created)

\* process_maha_aastha_query without the identifier short-circuit: a text
\* with an identifier is left to the stage branches
process_maha_aastha_query_no_guard_1(input_text, session_id, language, sessions) ==
    IF Identifier[input_text].tag = "raise"
    THEN Raised(Identifier[input_text].exc, sessions)
    ELSE SessionBranches(input_text, session_id, language, sessions)

\* the engine without the return of the identifier short-circuit: a text
\* with a valid identifier goes on to the stage branches
IdentifierGuard_no_return(d, input_text, session_id, language, sessions) ==
    IF d.tag = "raise" THEN Raised(d.exc, sessions)
    ELSE SessionBranches(input_text, session_id, language, sessions)

\* fastapp.py 540..568: the identifier short-circuit, d being what
\* detect_ticket_id_or_mobile did with the text
IdentifierGuard(d, input_text, session_id, language, sessions) ==
    IF d.tag = "raise" THEN Raised(d.exc, sessions)
    ELSE IF d.tag = "value"
    THEN Returned(
             LookupReply(get_ticket_status(d.v), d.v, d.type, language,
                         "mobile_not_found_check"),
             sessions, TRUE)
    ELSE SessionBranches(input_text, session_id, language, sessions)

\* fastapp.py 536..681
process_maha_aastha_query(input_text, session_id, language, sessions) ==
    IdentifierGuard(Identifier[input_text], input_text, session_id, language,
                    sessions)

(***************************************************************************)
(* The system                                                              *)
(***************************************************************************)

\* The session ids of the model
NumSessions == 1
SessionIds == 1..NumSessions

StageOf(sessions, session_id) ==
    IF session_id \in DOMAIN sessions THEN sessions[session_id].stage
    ELSE "absent"

NoCall ==
    [op |-> "none", text |-> "", sid |-> 0, lang |-> "",
     identifier |-> NoIdentifier, outcome |-> "",
     exc |-> "", reply |-> NoReply, before |-> "", after |-> "",
     store |-> "", repeat |-> FALSE, first_reply |-> NoReply,
     first_before |-> ""]

Unreachable == {"pool_missing", "query_raised"}

\* no HTTP request is being answered
NoResponse ==
    [op |-> "none", sid |-> 0, text |-> "", lang |-> "", rating |-> 0,
     rating_label |-> <<>>, status |-> 0, kind |-> "", reply |-> NoReply,
     engine |-> FALSE, header |-> <<>>, csv_rows |-> <<>>]

\* no text is with the detector
NoProbe == [text |-> <<>>, done |-> FALSE, result |-> NoIdentifier]

\* no engine calls run concurrently; base is the session store they start
\* from
NoCalls == [base |-> << >>, list |-> << >>]

Init ==
    /\ phase = "starting"
    /\ pool = "none"
    /\ db_up \in BOOLEAN
    /\ rows = {}
    /\ USER_SESSION_STATE = << >>
    /\ last = NoCall
    /\ CHAT_HISTORY = << >>
    /\ RATINGS_DATA = << >>
    /\ response = NoResponse
    /\ probe = NoProbe
    /\ calls = NoCalls

\* database.py 385..475: create_pool succeeds when the server answers and
\* raises otherwise, leaving the pool unset
init_pool == IF db_up THEN "open" ELSE pool

\* fastapp.py 683..715: startup runs init_database and serves whether or
\* not it succeeded
lifespan ==
    /\ phase = "starting"
    /\ last.op = "none"
    /\ phase' = "serving"
    /\ pool' = init_pool
    /\ UNCHANGED <<db_up, rows, USER_SESSION_STATE, last>>
    /\ UNCHANGED api_vars

\* fastapp.py 851..858: the ticket status endpoint initializes a missing
\* pool before its lookup
get_ticket_status_endpoint ==
    /\ phase = "serving"
    /\ last.op = "none"
    /\ pool = "none"
    /\ pool' = init_pool
    /\ UNCHANGED <<phase, db_up, rows, USER_SESSION_STATE, last>>
    /\ UNCHANGED api_vars

\* The database server stops answering: pool.acquire and fetchrow raise
\* (database.py 270, 283)
DbFail ==
    /\ last.op = "none"
    /\ db_up
    /\ db_up' = FALSE
    /\ UNCHANGED <<phase, pool, rows, USER_SESSION_STATE, last>>
    /\ UNCHANGED api_vars

DbRecover ==
    /\ last.op = "none"
    /\ ~db_up
    /\ db_up' = TRUE
    /\ UNCHANGED <<phase, pool, rows, USER_SESSION_STATE, last>>
    /\ UNCHANGED api_vars

\* database.py 27..109: a ticket form is saved as a new row; the ticket
\* code is unique and the rows are created in the order of created_at
save_ticket(row) ==
    /\ last.op = "none"
    /\ db_up
    /\ \A r \in rows : r.ticket # row.ticket /\ r.created_at < row.created_at
    /\ rows' = rows \cup {row}
    /\ UNCHANGED <<phase, pool, db_up, USER_SESSION_STATE, last>>
    /\ UNCHANGED api_vars

\* The engine's result r of a call becomes the session store, and `last`
\* holds the call until its reply is returned: its input, what detection
\* did with the text (d), the stage of its session before and after, and
\* what the ticket store was doing.  The same call made again at once is
\* recorded as a repeat of it.
Answer(session_id, input_text, language, d, r) ==
    LET store == IF r.lookup THEN StoreCondition ELSE "not_called"
        repeat == /\ last.op = "query"
                  /\ last.store \in Unreachable
                  /\ store \in Unreachable
    IN  /\ USER_SESSION_STATE' = r.sessions
        /\ last' = [op |-> "query", text |-> input_text,
                    sid |-> session_id, lang |-> language,
                    identifier |-> d,
                    outcome |-> r.outcome, exc |-> r.exc,
                    reply |-> r.reply,
                    before |-> StageOf(USER_SESSION_STATE, session_id),
                    after |-> StageOf(r.sessions, session_id),
                    store |-> store,
                    repeat |-> repeat,
                    first_reply |-> IF repeat THEN last.reply ELSE NoReply,
                    first_before |-> IF repeat THEN last.before ELSE ""]

\* One call of the engine, as process_query makes it (fastapp.py 827),
\* either on its own or right after the same call.
Query(session_id, input_text, language) ==
    /\ phase = "serving"
    /\ \/ last.op = "none"
       \/ /\ last.text = input_text
          /\ last.sid = session_id
          /\ last.lang = language
    /\ Answer(session_id, input_text, language, Identifier[input_text],
              process_maha_aastha_query(input_text, session_id, language,
                                        USER_SESSION_STATE))
    /\ UNCHANGED <<phase, pool, db_up, rows>>
    /\ UNCHANGED api_vars

\* fastapp.py 832..837: the reply goes back to the caller and the request
\* is over
ReturnReply ==
    /\ last.op = "query"
    /\ last' = NoCall
    /\ UNCHANGED <<phase, pool, db_up, rows, USER_SESSION_STATE>>
    /\ UNCHANGED api_vars

Next ==
    \/ lifespan
    \/ get_ticket_status_endpoint
    \/ DbFail
    \/ DbRecover
    \/ \E row \in TicketRows : save_ticket(row)
    \/ \E session_id \in SessionIds, input_text \in TextNames,
          language \in SUPPORTED_LANGUAGES :
          Query(session_id, input_text, language)
    \/ ReturnReply

Spec == Init /\ [][Next]_vars

(***************************************************************************)
(* The identifier detector on its own (fastapp.py 304..382): a text is     *)
(* handed to detect_ticket_id_or_mobile and the result is kept.            *)
(***************************************************************************)

\* the pieces the texts are put together from
ProbeTokens ==
    {
        \* 'TKT-ab12cd': a valid ticket ID
        <<84, 75, 84, 45, 97, 98, 49, 50, 99, 100>>,
        \* 'TKT-12': a TKT- token that is too short
        <<84, 75, 84, 45, 49, 50>>,
        \* '123456': six digits, a valid ticket ID
        <<49, 50, 51, 52, 53, 54>>,
        \* '98765-43210': a mobile number written with a dash
        <<57, 56, 55, 54, 53, 45, 52, 51, 50, 49, 48>>,
        \* '1+91-98765-43210': a mobile number behind a country code
        <<49, 43, 57, 49, 45, 57, 56, 55, 54, 53, 45, 52, 51, 50, 49, 48>>,
        \* ' ': a space
        <<32>>,
        \* 'x': a letter
        <<120>>
    }

\* the most pieces in a text
MaxTokens == 3

RECURSIVE Composed(_)
Composed(n) ==
    IF n = 0 THEN {<<>>}
    ELSE {t \o rest : t \in ProbeTokens, rest \in Composed(n - 1)}

ProbeTexts == UNION {Composed(n) : n \in 1..MaxTokens}

DetectInit ==
    /\ phase = "starting"
    /\ pool = "none"
    /\ db_up = FALSE
    /\ rows = {}
    /\ USER_SESSION_STATE = << >>
    /\ last = NoCall
    /\ CHAT_HISTORY = << >>
    /\ RATINGS_DATA = << >>
    /\ response = NoResponse
    /\ probe \in {[NoProbe EXCEPT !.text = t] : t \in ProbeTexts}
    /\ calls = NoCalls

\* fastapp.py 369..382 applied to the text
Detect ==
    /\ ~probe.done
    /\ probe' = [text |-> probe.text, done |-> TRUE,
                 result |-> detect_ticket_id_or_mobile(probe.text)]
    /\ UNCHANGED <<phase, pool, db_up, rows, USER_SESSION_STATE, last,
                   CHAT_HISTORY, RATINGS_DATA, response, calls>>

DetectNext == Detect

DetectSpec == DetectInit /\ [][DetectNext]_vars

(***************************************************************************)
(* The mobile-number functions on their own (fastapp.py 329..367): a text  *)
(* is handed to detect_mobile_number and to validate_mobile_number_format  *)
(* and both results are kept.                                              *)
(***************************************************************************)

\* the pieces the number texts are put together from
NumberTokens ==
    {
        <<43, 57, 49>>,                             \* '+91'
        <<48>>,                                     \* '0'
        <<57, 49>>,                                 \* '91'
        <<57>>,                                     \* '9'
        <<53>>,                                     \* '5'
        <<56, 55, 54, 53, 52, 51, 50, 49, 48>>,     \* '876543210'
        <<32>>,                                     \* ' '
        <<120>>,                                    \* 'x'
        <<2415>>                                    \* the Devanagari digit 9
    }

\* the most pieces in a number text
MaxNumberTokens == 4

RECURSIVE ComposedOf(_, _)
ComposedOf(tokens, n) ==
    IF n = 0 THEN {<<>>}
    ELSE {t \o rest : t \in tokens, rest \in ComposedOf(tokens, n - 1)}

NumberTexts == UNION {ComposedOf(NumberTokens, n) : n \in 1..MaxNumberTokens}

\* no text is with the mobile-number functions
NoNumberProbe == [text |-> <<>>, done |-> FALSE, mobile |-> None,
                  valid |-> FALSE]

NumberInit ==
    /\ phase = "starting"
    /\ pool = "none"
    /\ db_up = FALSE
    /\ rows = {}
    /\ USER_SESSION_STATE = << >>
    /\ last = NoCall
    /\ CHAT_HISTORY = << >>
    /\ RATINGS_DATA = << >>
    /\ response = NoResponse
    /\ probe \in {[NoNumberProbe EXCEPT !.text = t] : t \in NumberTexts}
    /\ calls = NoCalls

\* fastapp.py 329..352 and 354..367 applied to the text
DetectNumber ==
    /\ ~probe.done
    /\ probe' = [text |-> probe.text, done |-> TRUE,
                 mobile |-> detect_mobile_number(probe.text),
                 valid |-> validate_mobile_number_format(probe.text)]
    /\ UNCHANGED <<phase, pool, db_up, rows, USER_SESSION_STATE, last,
                   CHAT_HISTORY, RATINGS_DATA, response, calls>>

NumberNext == DetectNumber

NumberSpec == NumberInit /\ [][NumberNext]_vars

(***************************************************************************)
(* Engine calls of several sessions                                        *)
(***************************************************************************)

\* the sessions of the model and one more
IsolatedIds == 1..(NumSessions + 1)

\* texts that take a session through every branch of the engine
IsolatedTexts ==
    {"yes", "no", "check status", "feedback", "TKT-ab12cd", "98765-43210",
     "xyz"}

IsolationNext ==
    \/ lifespan
    \/ \E session_id \in IsolatedIds, input_text \in IsolatedTexts,
          language \in SUPPORTED_LANGUAGES :
          Query(session_id, input_text, language)
    \/ ReturnReply

IsolationSpec == Init /\ [][IsolationNext]_vars

(***************************************************************************)
(* Greetings (fastapp.py 285..302, 399..418)                               *)
(***************************************************************************)

\* re.sub of one character class by '': s without the characters dropped
Remove(s, drop) ==
    LET idx == SortedSeq({i \in 1..Len(s) : s[i] \notin drop})
    IN  [k \in 1..Len(idx) |-> s[idx[k]]]

\* fastapp.py 289: "!", ".", ",", the four emoji and the variation selector
GreetingPunctuation == {33, 46, 44, 128578, 128591, 10024, 11088, 65039}

\* fastapp.py 290..296: the patterns in list order, each an alternation of
\* \b...\b branches: a literal word, a word whose last character repeats
\* (hey+, hii+), or two words with \s* between them
greeting_patterns == <<
    [key |-> "good_morning", alts |-> <<
        \* good\s*morning
        [kind |-> "phrase", rep |-> 0,
         a |-> <<103, 111, 111, 100>>,
         b |-> <<109, 111, 114, 110, 105, 110, 103>>],
        \* shubh\s*sakal
        [kind |-> "phrase", rep |-> 0,
         a |-> <<2358, 2369, 2349>>,
         b |-> <<2360, 2325, 2366, 2355>>]
    >>],
    [key |-> "good_afternoon", alts |-> <<
        \* good\s*afternoon
        [kind |-> "phrase", rep |-> 0,
         a |-> <<103, 111, 111, 100>>,
         b |-> <<97, 102, 116, 101, 114, 110, 111, 111, 110>>],
        \* shubh\s*dupar
        [kind |-> "phrase", rep |-> 0,
         a |-> <<2358, 2369, 2349>>,
         b |-> <<2342, 2369, 2346, 2366, 2352>>]
    >>],
    [key |-> "good_evening", alts |-> <<
        \* good\s*evening
        [kind |-> "phrase", rep |-> 0,
         a |-> <<103, 111, 111, 100>>,
         b |-> <<101, 118, 101, 110, 105, 110, 103>>],
        \* shubh\s*sandhyakal
        [kind |-> "phrase", rep |-> 0,
         a |-> <<2358, 2369, 2349>>,
         b |-> <<2360, 2306, 2343, 2381, 2351, 2366, 2325, 2366, 2355>>]
    >>],
    [key |-> "hello", alts |-> <<
        \* hello
        [kind |-> "word", rep |-> 0,
         a |-> <<104, 101, 108, 108, 111>>,
         b |-> <<>>],
        \* hey+
        [kind |-> "plus", a |-> <<104, 101>>, rep |-> 121, b |-> <<>>],
        \* hii+
        [kind |-> "plus", a |-> <<104, 105>>, rep |-> 105, b |-> <<>>],
        \* hi
        [kind |-> "word", a |-> <<104, 105>>, rep |-> 0, b |-> <<>>],
        \* namaste
        [kind |-> "word", rep |-> 0,
         a |-> <<2344, 2350, 2360, 2381, 2340, 2375>>,
         b |-> <<>>],
        \* namaskar
        [kind |-> "word", rep |-> 0,
         a |-> <<2344, 2350, 2360, 2381, 2325, 2366, 2352>>,
         b |-> <<>>],
        \* hello (candra e)
        [kind |-> "word", rep |-> 0,
         a |-> <<2361, 2373, 2354, 2379>>,
         b |-> <<>>],
        \* hello (e)
        [kind |-> "word", rep |-> 0,
         a |-> <<2361, 2375, 2354, 2379>>,
         b |-> <<>>],
        \* hay
        [kind |-> "word", a |-> <<2361, 2366, 2351>>, rep |-> 0, b |-> <<>>]
    >>],
    [key |-> "good_night", alts |-> <<
        \* good\s*night
        [kind |-> "phrase", rep |-> 0,
         a |-> <<103, 111, 111, 100>>,
         b |-> <<110, 105, 103, 104, 116>>],
        \* shubh\s*ratri
        [kind |-> "phrase", rep |-> 0,
         a |-> <<2358, 2369, 2349>>,
         b |-> <<2352, 2366, 2340, 2381, 2352, 2368>>]
    >>]
>>

\* one branch of an alternation matches at index i
GreetingMatchAt(s, alt, i) ==
    LET p == i + Len(alt.a)
    IN  /\ Boundary(s, i - 1)
        /\ OccursAt(s, alt.a, i)
        /\ \E n \in 0..(Len(s) - p + 1) :
               /\ alt.kind = "word" => n = 0
               /\ alt.kind = "plus" =>
                      n >= 1 /\ \A k \in p..(p + n - 1) : s[k] = alt.rep
               /\ alt.kind = "phrase" =>
                      \A k \in p..(p + n - 1) : IsSpace(s[k])
               /\ OccursAt(s, alt.b, p + n)
               /\ Boundary(s, p + n + Len(alt.b) - 1)

\* re.search of one pattern
GreetingSearch(s, alts) ==
    \E a \in 1..Len(alts), i \in 1..Len(s) : GreetingMatchAt(s, alts[a], i)

NoGreeting == [is_greet |-> FALSE, key |-> ""]

\* detect_greeting returning the key of the last pattern found in the text
detect_greeting_last(text) ==
    LET t == Remove(Lower(Strip(text)), GreetingPunctuation)
        hits == {k \in 1..Len(greeting_patterns) :
                     GreetingSearch(t, greeting_patterns[k].alts)}
        last_hit == CHOOSE k \in hits : \A h \in hits : h <= k
    IN  IF hits = {} THEN NoGreeting
        ELSE [is_greet |-> TRUE, key |-> greeting_patterns[last_hit].key]

\* fastapp.py 285..302: the key of the first pattern found in the text
detect_greeting(text) ==
    LET t == Remove(Lower(Strip(text)), GreetingPunctuation)
        hits == {k \in 1..Len(greeting_patterns) :
                     GreetingSearch(t, greeting_patterns[k].alts)}
    IN  IF hits = {} THEN NoGreeting
        ELSE [is_greet |-> TRUE, key |-> greeting_patterns[SetMin(hits)].key]

(***************************************************************************)
(* The classifiers on their own (fastapp.py 285..302, 420..433): a text is *)
(* handed to detect_greeting and, with each language, to                   *)
(* detect_yes_no_response, and the results are kept.                       *)
(***************************************************************************)

\* the pieces the classified texts are put together from
ClassifyTokens ==
    {
        <<104, 101, 108, 108, 111>>,                            \* 'hello'
        <<103, 111, 111, 100, 32, 110, 105, 103, 104, 116>>,    \* 'good night'
        \* 'good morning'
        <<103, 111, 111, 100, 32, 109, 111, 114, 110, 105, 110, 103>>,
        <<2344, 2350, 2360, 2381, 2325, 2366, 2352>>,           \* namaskar
        \* shubh ratri
        <<2358, 2369, 2349, 32, 2352, 2366, 2340, 2381, 2352, 2368>>,
        <<121, 101, 115>>,                                      \* 'yes'
        <<110, 111>>,                                           \* 'no'
        <<2361, 2379>>,                                         \* ho
        <<2361, 2379, 2351>>,                                   \* hoy
        <<2344, 2366, 2361, 2368>>,                             \* nahi
        <<46>>,                                                 \* '.'
        <<32>>                                                  \* ' '
    }

\* the most pieces in a classified text
MaxWords == 3

ClassifyTexts == UNION {ComposedOf(ClassifyTokens, n) : n \in 1..MaxWords}

\* no text is with the classifiers
NoClassifyProbe ==
    [text |-> <<>>, done |-> FALSE, greeting |-> NoGreeting,
     yes_no |-> [language \in SUPPORTED_LANGUAGES |-> "unknown"]]

ClassifyInit ==
    /\ phase = "starting"
    /\ pool = "none"
    /\ db_up = FALSE
    /\ rows = {}
    /\ USER_SESSION_STATE = << >>
    /\ last = NoCall
    /\ CHAT_HISTORY = << >>
    /\ RATINGS_DATA = << >>
    /\ response = NoResponse
    /\ probe \in {[NoClassifyProbe EXCEPT !.text = t] : t \in ClassifyTexts}
    /\ calls = NoCalls

\* fastapp.py 285..302 and 420..433 applied to the text
Classify ==
    /\ ~probe.done
    /\ probe' = [text |-> probe.text, done |-> TRUE,
                 greeting |-> detect_greeting(probe.text),
                 yes_no |-> [language \in SUPPORTED_LANGUAGES |->
                     detect_yes_no_response(probe.text, language)]]
    /\ UNCHANGED <<phase, pool, db_up, rows, USER_SESSION_STATE, last,
                   CHAT_HISTORY, RATINGS_DATA, response, calls>>

ClassifyNext == Classify

ClassifySpec == ClassifyInit /\ [][ClassifyNext]_vars

(***************************************************************************)
(* The HTTP endpoints: POST /query/ (process_query), POST /rating/         *)
(* (submit_rating) and GET /ratings/export (export_ratings).  The request  *)
(* counters of SYSTEM_STATUS, the log and the time stamps of the entries   *)
(* are left out: no reply and no stored entry depends on them.             *)
(***************************************************************************)

\* fastapp.py 96: the longest input text accepted
MAX_INPUT_LENGTH == 500

\* fastapp.py 218: the exchanges kept per session
MAX_CHAT_HISTORY == 50

\* fastapp.py 144..147
RATING_LABELS ==
    [en |-> <<
        \* 1: Poor
        <<80, 111, 111, 114>>,
        \* 2: Fair
        <<70, 97, 105, 114>>,
        \* 3: Good
        <<71, 111, 111, 100>>,
        \* 4: Very Good
        <<86, 101, 114, 121, 32, 71, 111, 111, 100>>,
        \* 5: Excellent
        <<69, 120, 99, 101, 108, 108, 101, 110, 116>>
    >>,
     mr |-> <<
        \* 1: kharab
        <<2326, 2352, 2366, 2348>>,
        \* 2: samanya
        <<2360, 2366, 2350, 2366, 2344, 2381, 2351>>,
        \* 3: changle
        <<2330, 2366, 2306, 2327, 2354, 2375>>,
        \* 4: khup changle
        <<2326, 2370, 2346, 32, 2330, 2366, 2306, 2327, 2354, 2375>>,
        \* 5: utkrusht
        <<2313, 2340, 2381, 2325, 2371, 2359, 2381, 2335>>
    >>]

\* fastapp.py 110: session_id is Optional, None when the client sends none
NoSessionId == 0

\* fastapp.py 111: ticket_id is Optional
NoTicketId == ""

\* The texts of the requests of the model, by name: an empty one, one of
\* MAX_INPUT_LENGTH + 1 characters, a greeting next to a ticket ID, and
\* texts that reach the engine (such a text, stripped, is a text of
\* InputText)
RequestText ==
    "(empty)" :> <<>> @@
    "x*501" :> [i \in 1..(MAX_INPUT_LENGTH + 1) |-> 120] @@
    "hello TKT-ab12cd" :> <<104, 101, 108, 108, 111, 32, 84, 75, 84, 45, 97, 98, 49, 50, 99, 100>> @@
    " yes " :> <<32, 121, 101, 115, 32>> @@
    "no" :> <<110, 111>> @@
    "TKT-ab12cd" :> <<84, 75, 84, 45, 97, 98, 49, 50, 99, 100>> @@
    "98765-43210" :> <<57, 56, 55, 54, 53, 45, 52, 51, 50, 49, 48>>

RequestNames == DOMAIN RequestText

\* a language the service does not support, next to the supported ones
RequestLanguages == SUPPORTED_LANGUAGES \cup {"fr"}

\* the ratings a request may carry: the valid ones and one beyond each end
MIN_RATING == 1
MAX_RATING == 5
RequestRatings == {MIN_RATING - 1, MIN_RATING, MAX_RATING, MAX_RATING + 1}

RequestTicketIds == {NoTicketId, "TKT-ab12cd"}

\* fastapp.py 90..105: the validators of QueryRequest; the request is built
\* before the handler runs, and a ValueError of a validator rejects it
QueryRequest(input_text, language) ==
    LET v == Strip(input_text)
    IN  IF v = <<>> THEN Raise("input_text_empty")
        ELSE IF Len(v) > MAX_INPUT_LENGTH THEN Raise("input_text_too_long")
        ELSE IF language \notin SUPPORTED_LANGUAGES
        THEN Raise("language_unsupported")
        ELSE Value(v)

\* fastapp.py 114..119: the validator of RatingRequest (the language of a
\* rating request has no validator)
RatingRequest(rating) ==
    IF rating \notin MIN_RATING..MAX_RATING
    THEN Raise("rating_out_of_range")
    ELSE Value(rating)

\* The response to a request that a validator rejected: it carries the
\* validator's message, which the source gives in English only
Rejected(op, session_id, text, language, rating, exc) ==
    [NoResponse EXCEPT !.op = op, !.sid = session_id, !.text = text,
                       !.lang = language, !.rating = rating, !.status = 422,
                       !.kind = "validation_error", !.reply = Msg(exc, "en")]

\* fastapp.py 399..418
greeting_reply(language, key) ==
    LET keys == {greeting_patterns[k].key : k \in 1..Len(greeting_patterns)}
    IN  IF language \in SUPPORTED_LANGUAGES /\ key \in keys
        THEN Msg(key, language)
        ELSE Msg("hello", "en")

\* a chat history that keeps every exchange
add_to_chat_history_unbounded(history, session_id, user_message, assistant_message, language) ==
    LET old == IF session_id \in DOMAIN history THEN history[session_id]
               ELSE <<>>
        entry == [user |-> user_message, assistant |-> assistant_message,
                  language |-> language, session_id |-> session_id]
    IN  [s \in DOMAIN history \cup {session_id} |->
            IF s = session_id THEN <<entry>> \o old ELSE history[s]]

\* fastapp.py 205..220: the exchange goes to the front of the session's
\* list, which keeps its first MAX_CHAT_HISTORY entries
add_to_chat_history(history, session_id, user_message, assistant_message, language) ==
    LET old == IF session_id \in DOMAIN history THEN history[session_id]
               ELSE <<>>
        entry == [user |-> user_message, assistant |-> assistant_message,
                  language |-> language, session_id |-> session_id]
        all == <<entry>> \o old
        kept == SubSeq(all, 1, IF Len(all) > MAX_CHAT_HISTORY
                               THEN MAX_CHAT_HISTORY ELSE Len(all))
    IN  [s \in DOMAIN history \cup {session_id} |->
            IF s = session_id THEN kept ELSE history[s]]

\* a ledger that keeps the newest entry only
save_rating_data_newest(ledger, rating, session_id, language, ticket_id) ==
    IF \/ language \notin DOMAIN RATING_LABELS
       \/ rating \notin DOMAIN RATING_LABELS[language]
    THEN [ok |-> FALSE, ledger |-> ledger]
    ELSE [ok |-> TRUE,
          ledger |-> <<[timestamp |-> "now", session_id |-> session_id,
                        rating |-> rating,
                        Feedback |-> RATING_LABELS[language][rating],
                        language |-> language,
                        ticket_id |-> IF ticket_id = NoTicketId THEN "N/A"
                                      ELSE ticket_id]>>]

\* fastapp.py 222..283: the entry is appended to the ledger whether or not
\* the CSV file could be written; a language or rating without a label
\* makes both attempts raise KeyError and the function return False
save_rating_data(ledger, rating, session_id, language, ticket_id) ==
    IF \/ language \notin DOMAIN RATING_LABELS
       \/ rating \notin DOMAIN RATING_LABELS[language]
    THEN [ok |-> FALSE, ledger |-> ledger]
    ELSE [ok |-> TRUE,
          ledger |-> Append(ledger,
              [timestamp |-> "now", session_id |-> session_id,
               rating |-> rating,
               Feedback |-> RATING_LABELS[language][rating],
               language |-> language,
               ticket_id |-> IF ticket_id = NoTicketId THEN "N/A"
                             ELSE ticket_id])]

\* fastapp.py 198..203: a random id; it may be any id of the model
GeneratedIds == {NumSessions + 1}
generate_session_id == SessionIds \cup GeneratedIds

\* the number of exchanges in the chat history, and the most the model lets
\* it hold
MaxExchanges == 2
Exchanges(history) ==
    Cardinality(UNION {{s} \X (1..Len(history[s])) : s \in DOMAIN history})

\* The model sends a request that passes validation only while the chat
\* history holds fewer than MaxExchanges exchanges.
RoomFor(request) ==
    IF request.tag = "raise" THEN TRUE
    ELSE Exchanges(CHAT_HISTORY) < MaxExchanges

\* the text of the engine's catalogue that is the stripped request text
EngineText(input_text) ==
    CHOOSE t \in TextNames : InputText[t] = input_text

\* the response that goes back for a request that was handled
Responded(op, session_id, text, language, rating, status, kind, reply) ==
    [NoResponse EXCEPT !.op = op, !.sid = session_id, !.text = text,
                       !.lang = language, !.rating = rating,
                       !.status = status, !.kind = kind, !.reply = reply]

\* a greeting branch that also enters the session in the session store
Greet_with_session(session_id, text, language, input_text, key) ==
    /\ CHAT_HISTORY' =
           add_to_chat_history(CHAT_HISTORY, session_id, input_text,
                               greeting_reply(language, key), language)
    /\ response' = Responded("process_query", session_id, text, language, 0,
                             200, "greeting", greeting_reply(language, key))
    /\ USER_SESSION_STATE' =
           [s \in DOMAIN USER_SESSION_STATE \cup {session_id} |->
               IF s \in DOMAIN USER_SESSION_STATE THEN USER_SESSION_STATE[s]
               ELSE [stage |-> "initial", language |-> language]]
    /\ UNCHANGED last

\* fastapp.py 812..824: a greeting is answered at once
Greet(session_id, text, language, input_text, key) ==
    /\ CHAT_HISTORY' =
           add_to_chat_history(CHAT_HISTORY, session_id, input_text,
                               greeting_reply(language, key), language)
    /\ response' = Responded("process_query", session_id, text, language, 0,
                             200, "greeting", greeting_reply(language, key))
    /\ UNCHANGED <<USER_SESSION_STATE, last>>

\* fastapp.py 826..849: the engine is called with the text; its reply is
\* stored and returned, and when it raises the error message is returned
Engine(session_id, text, language, input_text, t, r) ==
    /\ Answer(session_id, t, language, Identifier[t], r)
    /\ IF r.outcome = "returned"
       THEN /\ CHAT_HISTORY' =
                   add_to_chat_history(CHAT_HISTORY, session_id, input_text,
                                       r.reply, language)
            /\ response' = [Responded("process_query", session_id, text,
                                      language, 0, 200, "reply", r.reply)
                            EXCEPT !.engine = TRUE]
       ELSE /\ CHAT_HISTORY' = CHAT_HISTORY
            /\ response' = [Responded("process_query", session_id, text,
                                      language, 0, 500, "error",
                                      Msg("query_error", language))
                            EXCEPT !.engine = TRUE]

\* fastapp.py 789..849: the handler, v being the validated input_text
HandleQuery(session_id, text, language, v, greeting) ==
    IF Strip(v) = <<>>
    THEN /\ response' = Responded("process_query", session_id, text,
                                  language, 0, 400, "error",
                                  Msg("provide_valid_query", language))
         /\ UNCHANGED <<USER_SESSION_STATE, last, CHAT_HISTORY>>
    ELSE IF language \notin SUPPORTED_LANGUAGES
    THEN /\ response' = Responded("process_query", session_id, text,
                                  language, 0, 400, "error",
                                  Msg("language_not_supported", "en"))
         /\ UNCHANGED <<USER_SESSION_STATE, last, CHAT_HISTORY>>
    ELSE IF greeting.is_greet
    THEN Greet(session_id, text, language, Strip(v), greeting.key)
    ELSE Engine(session_id, text, language, Strip(v), EngineText(Strip(v)),
                process_maha_aastha_query(EngineText(Strip(v)), session_id,
                                          language, USER_SESSION_STATE))

\* fastapp.py 785..849: POST /query/.  A request that fails validation is
\* rejected before the handler runs; the handler takes the session id of
\* the request or generates one.
process_query(session_id, text, language) ==
    /\ phase = "serving"
    /\ response.op = "none"
    /\ last.op = "none"
    /\ UNCHANGED <<phase, pool, db_up, rows, RATINGS_DATA, probe, calls>>
    /\ LET request == QueryRequest(RequestText[text], language)
       IN  IF request.tag = "raise"
           THEN /\ response' = Rejected("process_query", session_id, text,
                                        language, 0, request.exc)
                /\ UNCHANGED <<USER_SESSION_STATE, last, CHAT_HISTORY>>
           ELSE \E sid \in IF session_id = NoSessionId
                           THEN generate_session_id ELSE {session_id} :
                    HandleQuery(sid, text, language, request.v,
                                detect_greeting(Strip(request.v)))

\* fastapp.py 986..1021: the rating is saved and the exchange recorded
HandleRating(session_id, rating, language, ticket_id, saved) ==
    IF language \notin DOMAIN RATING_LABELS
    THEN /\ response' = Responded("submit_rating", session_id, "", language,
                                  rating, 500, "error",
                                  Msg("rating_error", "en"))
         /\ UNCHANGED <<CHAT_HISTORY, RATINGS_DATA>>
    ELSE IF saved.ok
    THEN /\ RATINGS_DATA' = saved.ledger
         /\ CHAT_HISTORY' =
                add_to_chat_history(CHAT_HISTORY, session_id,
                    <<82, 97, 116, 105, 110, 103, 58, 32, 48 + rating, 47, 53>>,
                    Msg("rating_thank_you", language), language)
         /\ response' = [Responded("submit_rating", session_id, "", language,
                                   rating, 200, "rating_saved",
                                   Msg("rating_thank_you", language))
                         EXCEPT !.rating_label =
                                    RATING_LABELS[language][rating]]
    ELSE /\ response' = Responded("submit_rating", session_id, "", language,
                                  rating, 500, "error",
                                  Msg("rating_not_saved", language))
         /\ UNCHANGED <<CHAT_HISTORY, RATINGS_DATA>>

\* POST /rating/, were an accepted rating to complete the session
submit_rating_completing(session_id, rating, language, ticket_id) ==
    /\ phase = "serving"
    /\ response.op = "none"
    /\ last.op = "none"
    /\ UNCHANGED <<phase, pool, db_up, rows, last, probe, calls>>
    /\ LET request == RatingRequest(rating)
       IN  IF request.tag = "raise"
           THEN /\ response' = Rejected("submit_rating", session_id, "",
                                        language, rating, request.exc)
                /\ UNCHANGED <<CHAT_HISTORY, RATINGS_DATA,
                               USER_SESSION_STATE>>
           ELSE \E sid \in IF session_id = NoSessionId
                           THEN generate_session_id ELSE {session_id} :
                    /\ HandleRating(sid, rating, language, ticket_id,
                           save_rating_data(RATINGS_DATA, rating, sid,
                                            language, ticket_id))
                    /\ USER_SESSION_STATE' =
                           [s \in DOMAIN USER_SESSION_STATE |->
                               IF s = sid
                               THEN [USER_SESSION_STATE[s]
                                     EXCEPT !.stage = "completed"]
                               ELSE USER_SESSION_STATE[s]]

\* fastapp.py 982..1062: POST /rating/
submit_rating(session_id, rating, language, ticket_id) ==
    /\ phase = "serving"
    /\ response.op = "none"
    /\ last.op = "none"
    /\ UNCHANGED <<phase, pool, db_up, rows, USER_SESSION_STATE, last, probe,
                   calls>>
    /\ LET request == RatingRequest(rating)
       IN  IF request.tag = "raise"
           THEN /\ response' = Rejected("submit_rating", session_id, "",
                                        language, rating, request.exc)
                /\ UNCHANGED <<CHAT_HISTORY, RATINGS_DATA>>
           ELSE \E sid \in IF session_id = NoSessionId
                           THEN generate_session_id ELSE {session_id} :
                    HandleRating(sid, rating, language, ticket_id,
                        save_rating_data(RATINGS_DATA, rating, sid,
                                         language, ticket_id))

\* fastapp.py 1089: the columns of the export
fieldnames ==
    <<"timestamp", "session_id", "rating", "feedback", "language",
      "ticket_id">>

\* a row whose feedback column is not filled from the entry's label
ExportRow_no_label(entry) ==
    [timestamp |-> entry.timestamp, session_id |-> entry.session_id,
     rating |-> entry.rating, feedback |-> <<>>,
     language |-> entry.language, ticket_id |-> entry.ticket_id]

\* fastapp.py 1077..1085: the row written for one ledger entry
ExportRow(entry) ==
    [timestamp |-> entry.timestamp, session_id |-> entry.session_id,
     rating |-> entry.rating, feedback |-> entry.Feedback,
     language |-> entry.language, ticket_id |-> entry.ticket_id]

\* fastapp.py 1064..1106: GET /ratings/export.  An empty ledger is
\* answered 404; otherwise the CSV holds the header and one row per entry
\* of the ledger, in list order.
export_ratings ==
    /\ phase = "serving"
    /\ response.op = "none"
    /\ last.op = "none"
    /\ response' =
           IF RATINGS_DATA = <<>>
           THEN Responded("export_ratings", 0, "", "", 0, 404, "no_ratings",
                          NoReply)
           ELSE [Responded("export_ratings", 0, "", "", 0, 200, "csv",
                           NoReply)
                 EXCEPT !.header = fieldnames,
                        !.csv_rows = [i \in 1..Len(RATINGS_DATA) |->
                                          ExportRow(RATINGS_DATA[i])]]
    /\ UNCHANGED <<phase, pool, db_up, rows, USER_SESSION_STATE, last,
                   CHAT_HISTORY, RATINGS_DATA, probe, calls>>

\* the response goes back to the client and the request is over
Respond ==
    /\ response.op # "none"
    /\ response' = NoResponse
    /\ last' = NoCall
    /\ UNCHANGED <<phase, pool, db_up, rows, USER_SESSION_STATE,
                   CHAT_HISTORY, RATINGS_DATA, probe, calls>>

\* the environment of the endpoints: startup and the ticket status endpoint
Environment ==
    /\ response.op = "none"
    /\ \/ lifespan
       \/ get_ticket_status_endpoint

ApiNext ==
    \/ Environment
    \/ \E session_id \in SessionIds \cup {NoSessionId},
          text \in RequestNames, language \in RequestLanguages :
          /\ RoomFor(QueryRequest(RequestText[text], language))
          /\ process_query(session_id, text, language)
    \/ \E session_id \in SessionIds \cup {NoSessionId},
          rating \in RequestRatings, language \in RequestLanguages,
          ticket_id \in RequestTicketIds :
          /\ RoomFor(RatingRequest(rating))
          /\ submit_rating(session_id, rating, language, ticket_id)
    \/ export_ratings
    \/ Respond

ApiSpec == Init /\ [][ApiNext]_vars

(***************************************************************************)
(* The life of a session: engine calls, greetings and ratings of the same  *)
(* session ids, over a ticket store in every condition.                    *)
(***************************************************************************)

\* the texts sent to the engine: a valid ticket ID, a mobile number on
\* which detection raises, the status question without and with a ticket
\* ID, yes, no, a feedback keyword, a registration keyword and a text that
\* is none of these
SessionTexts ==
    {"TKT-ab12cd", "98765-43210", "check status", "check status TKT-ab12cd",
     "yes", "no", "feedback", "register", "xyz"}

\* the greeting sent to POST /query/
SessionGreetings == {"hello TKT-ab12cd"}

\* the ratings sent to POST /rating/
SessionRatings == {MAX_RATING}

SessionNext ==
    \/ Environment
    \/ /\ response.op = "none"
       /\ \/ DbFail
          \/ DbRecover
          \/ save_ticket(RowA)
    \/ \E session_id \in SessionIds, input_text \in SessionTexts,
          language \in SUPPORTED_LANGUAGES :
          /\ response.op = "none"
          /\ Query(session_id, input_text, language)
    \/ ReturnReply
    \/ \E session_id \in SessionIds, text \in SessionGreetings :
          /\ RoomFor(QueryRequest(RequestText[text], "mr"))
          /\ process_query(session_id, text, "mr")
    \/ \E session_id \in SessionIds, rating \in SessionRatings :
          /\ RoomFor(RatingRequest(rating))
          /\ submit_rating(session_id, rating, "en", NoTicketId)
    \/ Respond

SessionSpec == Init /\ [][SessionNext]_vars

(***************************************************************************)
(* A long conversation: one session greets and rates until its chat        *)
(* history is full and beyond.  The exchanges in the middle are all the    *)
(* same; the first and the last ones vary.                                 *)
(***************************************************************************)

\* the session of the long conversation
HistoryIds == {SetMin(SessionIds)}

\* the ratings it sends
HistoryRatings == {MIN_RATING, MAX_RATING}

\* the number of exchanges at the start of the conversation that vary
MaxVaried == 2

\* the number of ratings sent beyond MAX_CHAT_HISTORY
MaxOverflow == 2

\* the rating is one the long conversation sends as its next
NextRating(rating) ==
    /\ Len(RATINGS_DATA) < MAX_CHAT_HISTORY + MaxOverflow
    /\ IF /\ Len(RATINGS_DATA) >= MaxVaried
          /\ Len(RATINGS_DATA) < MAX_CHAT_HISTORY - 1
       THEN rating = MAX_RATING
       ELSE TRUE

HistoryNext ==
    \/ Environment
    \/ \E session_id \in HistoryIds, text \in SessionGreetings :
          /\ Exchanges(CHAT_HISTORY) < MaxVaried
          /\ process_query(session_id, text, "mr")
    \/ \E session_id \in HistoryIds, rating \in HistoryRatings :
          /\ NextRating(rating)
          /\ submit_rating(session_id, rating, "en", NoTicketId)
    \/ Respond

HistorySpec == Init /\ [][HistoryNext]_vars

(***************************************************************************)
(* Concurrent engine calls.  process_maha_aastha_query is a coroutine on   *)
(* the single thread of the event loop: it runs without interruption from  *)
(* one await to the next, and other calls run while it is suspended.  Its  *)
(* awaits are the store lookups (fastapp.py 545, 581, 619).  `calls` holds *)
(* the session store as it was when no call was running (base) and the     *)
(* calls begun since, in the order they began (list).                      *)
(***************************************************************************)

\* the most calls that run at the same time
MaxCalls == 3

\* the session the concurrent calls are made for
ConcurrentIds == {SetMin(SessionIds)}

\* the texts of the concurrent calls
ConcurrentTexts == {"TKT-ab12cd", "check status", "yes", "no"}

\* a call that has run up to the lookup of the first guard and is suspended
\* there (fastapp.py 545)
Suspended(session_id, input_text, language, sessions) ==
    [sid |-> session_id, text |-> input_text, lang |-> language,
     pc |-> "lookup", suspended |-> TRUE, lookup |-> TRUE,
     before |-> StageOf(sessions, session_id), resumed |-> ""]

\* a call that is over, with the result r; was_suspended tells whether it
\* had been suspended, resumed is the stage its session had when it went on
Finished(call, was_suspended, resumed, r) ==
    [sid |-> call.sid, text |-> call.text, lang |-> call.lang,
     pc |-> "done", suspended |-> was_suspended, lookup |-> r.lookup,
     before |-> call.before, resumed |-> resumed]

\* fastapp.py 536..545 and 570..681: a call starts.  With a valid
\* identifier in its text it reaches the await of the first guard, having
\* read and written nothing of the session store; otherwise it runs to its
\* end (r) in one piece.
BeginWith(session_id, input_text, language, d, r) ==
    IF d.tag = "value"
    THEN /\ calls' = [calls EXCEPT !.list =
                         Append(@, Suspended(session_id, input_text,
                                             language, USER_SESSION_STATE))]
         /\ UNCHANGED USER_SESSION_STATE
    ELSE /\ calls' = [calls EXCEPT !.list =
                         Append(@, Finished(
                             Suspended(session_id, input_text, language,
                                       USER_SESSION_STATE),
                             FALSE, "", r))]
         /\ USER_SESSION_STATE' = r.sessions

Begin(session_id, input_text, language) ==
    /\ phase = "serving"
    /\ Len(calls.list) < MaxCalls
    /\ BeginWith(session_id, input_text, language, Identifier[input_text],
                 process_maha_aastha_query(input_text, session_id, language,
                                           USER_SESSION_STATE))
    /\ UNCHANGED <<phase, pool, db_up, rows, last, CHAT_HISTORY,
                   RATINGS_DATA, response, probe>>

\* a suspended call that goes on by writing back the stage it found when
\* it started
Resume_stale(c) ==
    /\ c <= Len(calls.list)
    /\ calls.list[c].pc = "lookup"
    /\ calls' = [calls EXCEPT !.list[c] =
                     Finished(@, TRUE, StageOf(USER_SESSION_STATE, @.sid),
                         IdentifierGuard(Identifier[@.text], @.text, @.sid,
                                         @.lang, USER_SESSION_STATE))]
    /\ USER_SESSION_STATE' =
           IF calls.list[c].before = "absent" THEN USER_SESSION_STATE
           ELSE [USER_SESSION_STATE EXCEPT
                    ![calls.list[c].sid].stage = calls.list[c].before]
    /\ UNCHANGED <<phase, pool, db_up, rows, last, CHAT_HISTORY,
                   RATINGS_DATA, response, probe>>

\* fastapp.py 545..568: the lookup of a suspended call is answered by the
\* store as it is now, and the call returns its reply
Resume(c) ==
    /\ c <= Len(calls.list)
    /\ calls.list[c].pc = "lookup"
    /\ calls' = [calls EXCEPT !.list[c] =
                     Finished(@, TRUE, StageOf(USER_SESSION_STATE, @.sid),
                         IdentifierGuard(Identifier[@.text], @.text, @.sid,
                                         @.lang, USER_SESSION_STATE))]
    /\ UNCHANGED <<phase, pool, db_up, rows, USER_SESSION_STATE, last,
                   CHAT_HISTORY, RATINGS_DATA, response, probe>>

\* every call has returned: the next calls start from the store as it is
Complete ==
    /\ calls.list # << >>
    /\ \A c \in 1..Len(calls.list) : calls.list[c].pc = "done"
    /\ calls' = [base |-> USER_SESSION_STATE, list |-> << >>]
    /\ UNCHANGED <<phase, pool, db_up, rows, USER_SESSION_STATE, last,
                   CHAT_HISTORY, RATINGS_DATA, response, probe>>

ConcurrentNext ==
    \/ lifespan
    \/ \E session_id \in ConcurrentIds, input_text \in ConcurrentTexts,
          language \in SUPPORTED_LANGUAGES :
          Begin(session_id, input_text, language)
    \/ \E c \in 1..MaxCalls : Resume(c)
    \/ Complete

ConcurrentSpec == Init /\ [][ConcurrentNext]_vars

(***************************************************************************)
(* Properties.  Each is about the call held in `last`: its input, the      *)
(* stage of its session before and after, the state of the ticket store    *)
(* when it ran and its reply.  The store is as the call found it, since    *)
(* nothing else runs until the reply is returned.                          *)
(***************************************************************************)

Called == last.op = "query"

\* the lookup the store would answer for the call's identifier
LastRow == FetchRow(Strip(last.identifier.v))

\* the session was new or in stage initial when the call began (a new
\* session is created in stage initial)
FromInitial == last.before \in {"absent", "initial"}

ReplyKinds == {"ticket_status", "ticket_not_found", "mobile_not_found_check",
               "mobile_not_found", "database_error", "ticket_id_prompt",
               "provide_valid_identifier", "feedback_question",
               "rating_request", "no_response", "help_text", "yes_response",
               "initial_menu"}

LookupKinds == {"ticket_status", "ticket_not_found",
                "mobile_not_found_check", "database_error"}

\* none of the first six guards applies to the call
NoGuardApplies ==
    /\ last.identifier.tag = "none"
    /\ ~StatusQuestion[last.text][last.lang]
    /\ last.before # "waiting_for_ticket_id"
    /\ ~FeedbackKeyword[last.text]
    /\ last.before # "feedback_question"
    /\ ~FromInitial
    /\ ~RegistrationKeyword[last.text]

\* C1: every engine call, for every text, stage, language and store
\* outcome, ends by returning a reply and never by raising; a call to which
\* no guard applies returns the menu.
C1_AlwaysReplies ==
    Called =>
        /\ last.outcome = "returned"
        /\ last.reply.kind \in ReplyKinds
        /\ last.reply.lang = last.lang
        /\ NoGuardApplies =>
               last.reply = get_initial_response_with_status_option(last.lang)

\* C2: in stage waiting_for_ticket_id, or on the status question, a text
\* with a valid identifier whose record the store returns is answered with
\* the record's ticket code and status, and the stage becomes status_shown.
C2_StatusShown ==
    ( /\ Called
      /\ \/ last.before = "waiting_for_ticket_id"
         \/ StatusQuestion[last.text][last.lang]
      /\ last.identifier.tag = "value"
      /\ last.store = "reachable"
      /\ LastRow.tag = "value" )
    =>  /\ last.reply.kind = "ticket_status"
        /\ last.reply.ticket = LastRow.row.ticket
        /\ last.reply.status = LastRow.row.status
        /\ last.after = "status_shown"

\* C3: "9876543210" on a session in stage initial, with no record for the
\* number, is answered with the not-found message that names the mobile
\* number, in the requested language, and the stage is unchanged.
C3_MobileNotFound ==
    ( /\ Called
      /\ last.text = "9876543210"
      /\ FromInitial
      /\ last.store = "reachable"
      /\ LastRow.tag = "none" )
    =>  /\ last.reply =
               MobileNotFound("mobile_not_found_check",
                              InputText["9876543210"], last.lang)
        /\ last.after = last.before

\* C4: a text with a detected and validated identifier is answered with the
\* lookup result of the first guard whatever the stage; no later guard
\* runs, and the session is left as it was (not created, stage unchanged).
C4_IdentifierShortCircuit ==
    (Called /\ last.identifier.tag = "value")
    =>  /\ last.outcome = "returned"
        /\ last.reply.kind \in LookupKinds
        /\ last.store # "not_called"
        /\ last.after = last.before

C4_Witness ==
    /\ Called
    /\ last.text = "check status TKT-ab12cd"
    /\ last.lang = "en"
    /\ last.before = "waiting_for_ticket_id"
    /\ last.reply.kind = "ticket_status"

\* C5: when the store fails for an infrastructure reason during a lookup
\* (no pool, or the query raises), the reply is the database-error message,
\* not a not-found message, and the stage is unchanged.
C5_DatabaseError ==
    (Called /\ last.store \in Unreachable)
    =>  /\ last.reply = Msg("database_error", last.lang)
        /\ last.after = last.before

\* C6: while the store is unreachable, the same call made twice in a row
\* yields the identical error reply both times and leaves the stage as it
\* was before the first call.
C6_IdempotentError ==
    (Called /\ last.repeat)
    =>  /\ last.reply = last.first_reply
        /\ last.reply = Msg("database_error", last.lang)
        /\ last.after = last.first_before

\* Some part of the text is accepted by one of the two validators.
CarriesValidIdentifier(text) ==
    \E i \in 1..Len(text), j \in 1..Len(text) :
        /\ i <= j
        /\ \/ validate_ticket_id_format(Slice(text, i, j))
           \/ validate_mobile_number_format(Slice(text, i, j))

\* The text of the call has no valid identifier: detection returns nothing,
\* or it raises on a text no part of which is a valid identifier.
NoValidIdentifier ==
    \/ last.identifier.tag = "none"
    \/ /\ last.identifier.tag = "raise"
       /\ ~CarriesValidIdentifier(InputText[last.text])

\* C7: when guards 1 to 5 do not apply and the stage is initial or the text
\* has a registration keyword, the yes/no classification alone decides: yes
\* gives registration_info, no gives feedback_question, unknown gives
\* awaiting_response with the menu; "yes" and "hoy" from initial give
\* registration_info.
C7_Applies ==
    /\ Called
    /\ NoValidIdentifier
    /\ ~StatusQuestion[last.text][last.lang]
    /\ last.before # "waiting_for_ticket_id"
    /\ ~FeedbackKeyword[last.text]
    /\ last.before # "feedback_question"
    /\ FromInitial \/ RegistrationKeyword[last.text]

C7_RegistrationBranch ==
    /\ C7_Applies =>
        /\ YesNo[last.text][last.lang] = "yes" =>
              /\ last.after = "registration_info"
              /\ last.reply = Msg("yes_response", last.lang)
        /\ YesNo[last.text][last.lang] = "no" =>
              /\ last.after = "feedback_question"
              /\ last.reply = get_feedback_question(last.lang)
        /\ YesNo[last.text][last.lang] = "unknown" =>
              /\ last.after = "awaiting_response"
              /\ last.reply =
                     get_initial_response_with_status_option(last.lang)
    /\ (Called /\ FromInitial /\ last.text \in {"yes", "mr:hoy"}) =>
           last.after = "registration_info"

\* C8: in stage feedback_question, for a text to which guards 1 to 4 do not
\* apply, yes moves the stage to rating_request, no to completed ("no"
\* always ends in completed), and any other answer leaves the stage and
\* returns the help text.
C8_Applies ==
    /\ Called
    /\ last.before = "feedback_question"
    /\ NoValidIdentifier
    /\ ~StatusQuestion[last.text][last.lang]
    /\ ~FeedbackKeyword[last.text]

C8_FeedbackAnswer ==
    /\ C8_Applies =>
        /\ YesNo[last.text][last.lang] = "yes" =>
              /\ last.after = "rating_request"
              /\ last.reply = get_rating_request(last.lang)
        /\ YesNo[last.text][last.lang] = "no" =>
              /\ last.after = "completed"
              /\ last.reply = Msg("no_response", last.lang)
        /\ YesNo[last.text][last.lang] = "unknown" =>
              /\ last.after = "feedback_question"
              /\ last.reply = Msg("help_text", last.lang)
    /\ (Called /\ last.before = "feedback_question" /\ last.text = "no") =>
           last.after = "completed"

\* C9: from every stage, a text recognized as the status question that
\* carries no valid identifier sets the stage to waiting_for_ticket_id and
\* returns the prompt for a ticket ID or mobile number.
C9_Applies ==
    /\ Called
    /\ StatusQuestion[last.text][last.lang]
    /\ NoValidIdentifier

C9_StatusPrompt ==
    C9_Applies =>
        /\ last.after = "waiting_for_ticket_id"
        /\ last.reply = Msg("ticket_id_prompt", last.lang)

\* C10: a text with a feedback keyword (no valid identifier, not the status
\* question, stage not waiting_for_ticket_id) sets the stage to
\* feedback_question and returns the feedback prompt whatever the prior
\* stage and whatever yes/no token it holds; "no feedback" in stage
\* feedback_question leaves the stage feedback_question.
C10_Applies ==
    /\ Called
    /\ FeedbackKeyword[last.text]
    /\ NoValidIdentifier
    /\ ~StatusQuestion[last.text][last.lang]
    /\ last.before # "waiting_for_ticket_id"

C10_FeedbackKeyword ==
    /\ C10_Applies =>
        /\ last.after = "feedback_question"
        /\ last.reply = get_feedback_question(last.lang)
    /\ ( /\ Called
         /\ last.text = "no feedback"
         /\ last.before = "feedback_question" ) =>
           last.after = "feedback_question"

\* C11: when no earlier guard applies (no valid identifier, not the status
\* question, no feedback or registration keyword, stage awaiting_response,
\* registration_info, rating_request or completed), the reply is the full
\* menu and the stage is unchanged; a bare "yes" or "no" in stage
\* awaiting_response returns the menu again.
FallbackStages ==
    {"awaiting_response", "registration_info", "rating_request", "completed"}

C11_Applies ==
    /\ Called
    /\ NoValidIdentifier
    /\ ~StatusQuestion[last.text][last.lang]
    /\ ~FeedbackKeyword[last.text]
    /\ ~RegistrationKeyword[last.text]
    /\ last.before \in FallbackStages

C11_MenuFallback ==
    /\ C11_Applies =>
        /\ last.reply = get_initial_response_with_status_option(last.lang)
        /\ last.after = last.before
    /\ ( /\ Called
         /\ last.before = "awaiting_response"
         /\ last.text \in {"yes", "no"} ) =>
           /\ last.reply = get_initial_response_with_status_option(last.lang)
           /\ last.after = "awaiting_response"

\* C13: the first call the engine handles for a session id that is not in
\* the session store creates the entry of that id, whatever the text; the
\* entry is created in stage initial, so the call is answered as a call from
\* stage initial is.
C13_CreatesSession ==
    (Called /\ last.before = "absent") => last.after \in Stages

\* C12: a request of POST /query/ whose text detect_greeting classifies as
\* a greeting is answered with the greeting reply of its key and language
\* without a call of the engine: no lookup in the ticket store is made and
\* USER_SESSION_STATE is unchanged, also when the text holds a valid ticket
\* ID next to the greeting.
GreetingRequest(r) ==
    /\ r.op = "process_query"
    /\ r.kind # "validation_error"
    /\ detect_greeting(RequestText[r.text]).is_greet

C12_GreetingBypass ==
    [][(response.op = "none" /\ GreetingRequest(response')) =>
           /\ response'.status = 200
           /\ response'.reply =
                  greeting_reply(response'.lang,
                      detect_greeting(RequestText[response'.text]).key)
           /\ ~response'.engine
           /\ last' = NoCall
           /\ USER_SESSION_STATE' = USER_SESSION_STATE]_vars

C12_Witness ==
    /\ response.op = "process_query"
    /\ response.text = "hello TKT-ab12cd"
    /\ response.lang = "mr"
    /\ response.reply = Msg("hello", "mr")
    /\ detect_ticket_id_or_mobile(RequestText[response.text]).type =
           "ticket_id"

\* C14: once a session id is in the session store it stays there: no
\* query, rating, export or status operation removes its entry or resets
\* it (puts the entry of a new session, in stage initial and with the
\* language of the request, in its place); an entry changes only by an
\* engine call made with its id.
C14_SessionsStay ==
    [][\A s \in DOMAIN USER_SESSION_STATE :
           /\ s \in DOMAIN USER_SESSION_STATE'
           /\ USER_SESSION_STATE'[s].language = USER_SESSION_STATE[s].language
           /\ USER_SESSION_STATE'[s].stage # "initial"
           /\ USER_SESSION_STATE'[s] # USER_SESSION_STATE[s] =>
                  last'.op = "query" /\ last'.sid = s]_vars

C14_Witness ==
    /\ 1 \in DOMAIN USER_SESSION_STATE
    /\ USER_SESSION_STATE[1].stage = "feedback_question"
    /\ response.op = "submit_rating"
    /\ response.status = 200
    /\ response.sid = 1

\* C15: an engine call for a session never reads or changes the entry of
\* another session: the entries of the other sessions are the same before
\* and after the call, and the call ends as it does when the store holds
\* the entry of its own session only.
Restrict(sessions, ids) == [s \in DOMAIN sessions \cap ids |-> sessions[s]]

SameAsAlone(call, alone) ==
    /\ call.outcome = alone.outcome
    /\ call.reply = alone.reply
    /\ call.after = StageOf(alone.sessions, call.sid)

C15_SessionIsolation ==
    [][last'.op = "query" =>
           /\ \A b \in IsolatedIds \ {last'.sid} :
                  /\ b \in DOMAIN USER_SESSION_STATE' <=>
                         b \in DOMAIN USER_SESSION_STATE
                  /\ b \in DOMAIN USER_SESSION_STATE =>
                         USER_SESSION_STATE'[b] = USER_SESSION_STATE[b]
           /\ SameAsAlone(last',
                  process_maha_aastha_query(last'.text, last'.sid, last'.lang,
                      Restrict(USER_SESSION_STATE, {last'.sid})))]_vars

C15_Witness ==
    /\ 2 \in DOMAIN USER_SESSION_STATE
    /\ USER_SESSION_STATE[2].stage = "feedback_question"
    /\ last.op = "query"
    /\ last.sid = 1
    /\ last.before = "awaiting_response"
    /\ last.after = "waiting_for_ticket_id"

\* C16: a request with malformed input (empty text, text over the length
\* limit, unsupported language, rating outside 1..5) is rejected with a
\* message in the language of the request and changes nothing: no session
\* entry, no chat history entry and no rating entry is created or modified.
Malformed(r) ==
    \/ /\ r.op = "process_query"
       /\ \/ Strip(RequestText[r.text]) = <<>>
          \/ Len(Strip(RequestText[r.text])) > MAX_INPUT_LENGTH
          \/ r.lang \notin SUPPORTED_LANGUAGES
    \/ /\ r.op = "submit_rating"
       /\ \/ r.rating \notin MIN_RATING..MAX_RATING
          \/ r.lang \notin SUPPORTED_LANGUAGES

C16_MalformedRejected ==
    [][(response.op = "none" /\ Malformed(response')) =>
           /\ response'.status \in 400..599
           /\ response'.lang \in SUPPORTED_LANGUAGES =>
                  response'.reply.lang = response'.lang
           /\ USER_SESSION_STATE' = USER_SESSION_STATE
           /\ CHAT_HISTORY' = CHAT_HISTORY
           /\ RATINGS_DATA' = RATINGS_DATA]_vars

\* C17: the ratings ledger is append-only: every accepted rating
\* submission (rating in 1..5, supported language) appends exactly one
\* entry, whose label is RATING_LABELS[language][rating] (rating 5 in mr
\* gives the mr label of 5), no other step adds an entry, and no step
\* changes or removes an entry that is in the ledger.
AcceptedRating(r) ==
    /\ r.op = "submit_rating"
    /\ r.rating \in MIN_RATING..MAX_RATING
    /\ r.lang \in SUPPORTED_LANGUAGES

C17_LedgerAppendOnly ==
    [][/\ Len(RATINGS_DATA') >= Len(RATINGS_DATA)
       /\ SubSeq(RATINGS_DATA', 1, Len(RATINGS_DATA)) = RATINGS_DATA
       /\ IF response.op = "none" /\ AcceptedRating(response')
          THEN /\ response'.status = 200
               /\ Len(RATINGS_DATA') = Len(RATINGS_DATA) + 1
               /\ RATINGS_DATA'[Len(RATINGS_DATA')].rating = response'.rating
               /\ RATINGS_DATA'[Len(RATINGS_DATA')].language = response'.lang
               /\ RATINGS_DATA'[Len(RATINGS_DATA')].session_id = response'.sid
               /\ RATINGS_DATA'[Len(RATINGS_DATA')].Feedback =
                      RATING_LABELS[response'.lang][response'.rating]
          ELSE RATINGS_DATA' = RATINGS_DATA]_vars

C17_Witness ==
    /\ response.op = "submit_rating"
    /\ response.rating = 5
    /\ response.lang = "mr"
    /\ Len(RATINGS_DATA) = 2
    /\ RATINGS_DATA[1].Feedback = RATING_LABELS.en[1]
    /\ RATINGS_DATA[2].Feedback = RATING_LABELS.mr[5]
    /\ RATINGS_DATA[2].Feedback =
           <<2313, 2340, 2381, 2325, 2371, 2359, 2381, 2335>>

\* C18: the ratings export holds, after the header timestamp, session_id,
\* rating, feedback, language, ticket_id, exactly one row per entry of the
\* ledger, in the order in which the entries were submitted (an empty
\* ledger has no export: the request is answered 404).
C18_ExportRows ==
    response.op = "export_ratings" =>
        IF RATINGS_DATA = <<>>
        THEN response.status = 404 /\ response.csv_rows = <<>>
        ELSE /\ response.status = 200
             /\ response.header =
                    <<"timestamp", "session_id", "rating", "feedback",
                      "language", "ticket_id">>
             /\ Len(response.csv_rows) = Len(RATINGS_DATA)
             /\ \A i \in 1..Len(RATINGS_DATA) :
                    /\ response.csv_rows[i].timestamp =
                           RATINGS_DATA[i].timestamp
                    /\ response.csv_rows[i].session_id =
                           RATINGS_DATA[i].session_id
                    /\ response.csv_rows[i].rating = RATINGS_DATA[i].rating
                    /\ response.csv_rows[i].feedback =
                           RATINGS_DATA[i].Feedback
                    /\ response.csv_rows[i].language =
                           RATINGS_DATA[i].language
                    /\ response.csv_rows[i].ticket_id =
                           RATINGS_DATA[i].ticket_id

C18_Witness ==
    /\ response.op = "export_ratings"
    /\ response.status = 200
    /\ Len(response.csv_rows) = 2
    /\ response.csv_rows[1].rating = 5
    /\ response.csv_rows[1].ticket_id = "TKT-ab12cd"
    /\ response.csv_rows[2].rating = 1
    /\ response.csv_rows[2].ticket_id = "N/A"
    /\ response.csv_rows[2].feedback = RATING_LABELS.mr[1]

\* The words of a text: its longest runs of characters that are not
\* whitespace.  A text contains a ticket code where one of its words is
\* accepted by validate_ticket_id_format.
IsWordOf(text, i, j) ==
    /\ i <= j
    /\ \A k \in i..j : ~IsSpace(text[k])
    /\ i = 1 \/ IsSpace(text[i - 1])
    /\ j = Len(text) \/ IsSpace(text[j + 1])

Words(text) ==
    {SubSeq(text, w[1], w[2]) :
        w \in {x \in (1..Len(text)) \X (1..Len(text)) :
                  IsWordOf(text, x[1], x[2])}}

ValidCodes(text) == {w \in Words(text) : validate_ticket_id_format(w)}

\* C19: for every text that contains a validly formatted ticket code
\* (TKT- and at least six alphanumerics, TKT and at least six
\* alphanumerics, or at least six digits), detect_ticket_id_or_mobile
\* returns exactly that code, typed ticket_id, whatever surrounds it,
\* shorter TKT- tokens and digit runs earlier in the text included.
C19_DetectsValidCode ==
    (probe.done /\ ValidCodes(probe.text) # {}) =>
        /\ probe.result.tag = "value"
        /\ probe.result.type = "ticket_id"
        /\ probe.result.v \in ValidCodes(probe.text)

\* C20: detect_ticket_id_or_mobile tries the ticket detection and its
\* validation first and the mobile detection only when that fails, and it
\* returns (None, None), or a ticket_id that validate_ticket_id_format
\* accepts, or a mobile_number that validate_mobile_number_format accepts;
\* a candidate that fails validation is never returned.
TicketFirst(result, candidate) ==
    IF candidate.tag = "value" /\ validate_ticket_id_format(candidate.v)
    THEN result.type = "ticket_id" /\ result.v = candidate.v
    ELSE result.type # "ticket_id"

C20_WellTagged ==
    probe.done =>
        /\ probe.result.tag \in {"none", "value"}
        /\ probe.result.tag = "none" => probe.result = NoIdentifier
        /\ probe.result.tag = "value" =>
               \/ /\ probe.result.type = "ticket_id"
                  /\ validate_ticket_id_format(probe.result.v)
               \/ /\ probe.result.type = "mobile_number"
                  /\ validate_mobile_number_format(probe.result.v)
        /\ TicketFirst(probe.result, detect_ticket_id(probe.text))

(***************************************************************************)
(* Mobile numbers (NumberSpec)                                             *)
(***************************************************************************)

\* the copy of the text that keeps digits, plus signs and whitespace
StrippedCopy(text) == Filter(text, KeepMobile)

\* ten ASCII digits from index j on, the first of them 6..9, and no digit
\* after them
TenDigitsAt(c, j) ==
    /\ j >= 1
    /\ j + 9 <= Len(c)
    /\ c[j] \in 54..57
    /\ \A k \in 1..9 : c[j + k] \in AsciiDigits
    /\ (j + 10 <= Len(c) => ~IsDecimal(c[j + 10]))

\* The mobile numbers the stripped copy c holds, each with the index it
\* starts at and the index of its ten-digit payload: +91 then the number,
\* the bare number, 0 then the number.
MobileForms(c) ==
    {f \in [at : 1..Len(c), payload : 1..Len(c)] :
        /\ TenDigitsAt(c, f.payload)
        /\ \/ /\ f.payload = f.at + 3
              /\ SubSeq(c, f.at, f.at + 2) = <<43, 57, 49>>
           \/ /\ f.payload = f.at
              /\ (f.at > 1 => ~IsDecimal(c[f.at - 1]) /\ c[f.at - 1] # 43)
           \/ /\ f.payload = f.at + 1
              /\ c[f.at] = 48
              /\ (f.at > 1 => ~IsDecimal(c[f.at - 1]))}

FirstMobileForm(c) ==
    CHOOSE f \in MobileForms(c) : \A g \in MobileForms(c) : f.at <= g.at

\* C21: for every text whose stripped copy (digits, plus signs and
\* whitespace kept) holds a mobile number in one of the three forms (+91
\* then ten digits starting 6..9, the bare ten digits, 0 then the ten
\* digits), detect_mobile_number returns as a value the bare ten-digit
\* number of the first such occurrence, the +91 or 0 prefix removed.
C21_ReturnsPayload ==
    LET c == StrippedCopy(probe.text)
    IN  (probe.done /\ MobileForms(c) # {})
        => LET f == FirstMobileForm(c)
           IN  probe.mobile = Value(SubSeq(c, f.payload, f.payload + 9))

\* the digits of a string, as re.sub(r'\D', '', s) leaves them
DigitsOnly(s) == Filter(s, Decimals)

\* the 11-digit form 0 then 6..9 and the 12-digit form 91 then 6..9
PrefixedForm(d) ==
    \/ Len(d) = 11 /\ d[1] = 48 /\ d[2] \in 54..57
    \/ Len(d) = 12 /\ d[1] = 57 /\ d[2] = 49 /\ d[3] \in 54..57

\* C22: validate_mobile_number_format returns true for every string of ten
\* digits whose first character is 6, 7, 8 or 9, and false for every
\* string whose digits-only form has fewer than ten digits or starts with
\* a character 0 to 5, the 11-digit form 0 then 6..9 and the 12-digit form
\* 91 then 6..9 excepted.  The digits are the characters \d matches, the
\* leading characters are the ASCII characters the claim names.
C22_ValidatesFormat ==
    LET s == probe.text
        d == DigitsOnly(s)
    IN  probe.done
        => /\ (Len(s) = 10 /\ d = s /\ s[1] \in 54..57) => probe.valid
           /\ (/\ Len(d) < 10 \/ (d # <<>> /\ d[1] \in 48..53)
               /\ ~PrefixedForm(d))
              => ~probe.valid

\* '9876543210' is accepted, '5876543210' and '0' + '5876543210' are not
C22_Witness ==
    /\ probe.done
    /\ probe.text = <<57, 56, 55, 54, 53, 52, 51, 50, 49, 48>>
    /\ probe.valid

(***************************************************************************)
(* Greetings and yes/no answers (ClassifySpec)                             *)
(***************************************************************************)

\* the categories in the order of the claim
GreetingOrder ==
    <<"good_morning", "good_afternoon", "good_evening", "hello",
      "good_night">>

\* the text as the patterns see it: stripped, lower case, without the
\* punctuation and emoji of fastapp.py 289
NormalizedText(text) == Remove(Lower(Strip(text)), GreetingPunctuation)

\* the pattern of the category occurs in t
CategoryOccurs(t, key) ==
    \E k \in 1..Len(greeting_patterns) :
        /\ greeting_patterns[k].key = key
        /\ GreetingSearch(t, greeting_patterns[k].alts)

\* C23: detect_greeting returns the first category, in the fixed order
\* good_morning, good_afternoon, good_evening, hello, good_night, whose
\* pattern occurs in the normalized text (and no greeting when none does);
\* "hello good night", which holds a hello token and a good-night token,
\* is classified hello.
C23_FirstCategory ==
    LET t == NormalizedText(probe.text)
        found == {n \in 1..Len(GreetingOrder) :
                     CategoryOccurs(t, GreetingOrder[n])}
    IN  probe.done
        => /\ found = {} => probe.greeting = NoGreeting
           /\ found # {} =>
                  probe.greeting = [is_greet |-> TRUE,
                                    key |-> GreetingOrder[SetMin(found)]]
           /\ probe.text = <<104, 101, 108, 108, 111, 32, 103, 111, 111,
                             100, 32, 110, 105, 103, 104, 116>>
                  => probe.greeting.key = "hello"

\* "hello good night" has been classified, both patterns occur in it
C23_Witness ==
    /\ probe.done
    /\ probe.text = <<104, 101, 108, 108, 111, 32, 103, 111, 111, 100, 32,
                      110, 105, 103, 104, 116>>
    /\ CategoryOccurs(NormalizedText(probe.text), "hello")
    /\ CategoryOccurs(NormalizedText(probe.text), "good_night")
    /\ probe.greeting.key = "hello"

\* the affirmative and the negative tokens of both languages
AffirmativeTokens ==
    {<<121, 101, 115>>, <<121>>, <<121, 101, 97, 104>>, <<121, 101, 112>>,
     <<2361, 2379, 2351>>, <<2361, 2379>>}

\* the text contains the token as one of its words
ContainsToken(text, tokens) == Words(Lower(Strip(text))) \cap tokens # {}

\* C24: detect_yes_no_response returns "yes" whenever the text contains an
\* affirmative token of either language (yes, y, yeah, yep, hoy, ho), also
\* when it contains a negative token as well, and the result does not
\* depend on the language argument: for every text the result with
\* language en equals the result with language mr.
C24_YesWins ==
    probe.done
    => /\ ContainsToken(probe.text, AffirmativeTokens)
              => probe.yes_no["en"] = "yes"
       /\ probe.yes_no["en"] = probe.yes_no["mr"]

(***************************************************************************)
(* The stages of a session (SessionSpec)                                   *)
(***************************************************************************)

\* C25: the stage waiting_for_ticket_id is absorbing: a session whose
\* stage is waiting_for_ticket_id is still stored with that stage after
\* every engine call, greeting and rating, whatever the text (a valid
\* identifier, a feedback keyword, yes or no, a registration keyword) and
\* whatever the ticket store returns.
C25_WaitingAbsorbing ==
    [][\A s \in DOMAIN USER_SESSION_STATE :
           USER_SESSION_STATE[s].stage = "waiting_for_ticket_id"
           => /\ s \in DOMAIN USER_SESSION_STATE'
              /\ USER_SESSION_STATE'[s].stage = "waiting_for_ticket_id"]_vars

\* a waiting session that has greeted and rated sends a valid ticket ID,
\* the ticket is found and shown, and the session is still waiting
C25_Witness ==
    /\ last.op = "query"
    /\ last.before = "waiting_for_ticket_id"
    /\ last.identifier.type = "ticket_id"
    /\ last.reply.kind = "ticket_status"
    /\ StageOf(USER_SESSION_STATE, last.sid) = "waiting_for_ticket_id"
    /\ last.sid \in DOMAIN CHAT_HISTORY
    /\ RATINGS_DATA # <<>>

\* the stages the claim lists
StoredStages ==
    {"initial", "awaiting_response", "registration_info",
     "waiting_for_ticket_id", "feedback_question", "rating_request",
     "completed"}

\* C26: in every reachable state the stage of every stored session is one
\* of initial, awaiting_response, registration_info, waiting_for_ticket_id,
\* feedback_question, rating_request, completed.  The stage status_shown
\* is never stored: every text with a valid identifier is answered by the
\* first guard, which makes the lookup and leaves the stage as it was.
C26_StoredStages ==
    /\ \A s \in DOMAIN USER_SESSION_STATE :
           USER_SESSION_STATE[s].stage \in StoredStages
    /\ (last.op = "query" /\ last.identifier.tag = "value")
       => /\ last.store # "not_called"
          /\ last.after = last.before

\* a status question that carries a ticket ID of the store is answered
\* with the ticket, and the session keeps the stage it had
C26_Witness ==
    /\ last.op = "query"
    /\ last.text = "check status TKT-ab12cd"
    /\ last.reply.kind = "ticket_status"
    /\ last.before = "awaiting_response"
    /\ StageOf(USER_SESSION_STATE, last.sid) = "awaiting_response"

\* C27: whenever no engine call is in progress no stored session has stage
\* initial.  The call that creates a session moves it out of initial
\* before it returns, to waiting_for_ticket_id, feedback_question,
\* registration_info or awaiting_response, and no later call sets a stage
\* back to initial.
C27_NeverInitial ==
    /\ last.op = "none"
       => \A s \in DOMAIN USER_SESSION_STATE :
              USER_SESSION_STATE[s].stage # "initial"
    /\ (last.op = "query" /\ last.before = "absent"
        /\ last.after # "absent")
       => last.after \in {"waiting_for_ticket_id", "feedback_question",
                          "registration_info", "awaiting_response"}
    /\ (last.op = "query" /\ last.before \notin {"absent", "initial"})
       => last.after # "initial"

\* a session that was created by an earlier call declines to give
\* feedback: the call leaves it completed, not initial
C27_Witness ==
    /\ last.op = "query"
    /\ last.before = "feedback_question"
    /\ last.after = "completed"
    /\ StageOf(USER_SESSION_STATE, last.sid) = "completed"

\* C29: submitting a rating never reads or changes the session store.  A
\* session in stage rating_request is still in rating_request after its
\* rating is accepted, a rating is accepted in any stage and for a session
\* id that has no session entry, and no stage becomes completed as the
\* effect of a rating.
C29_RatingLeavesSessions ==
    [][response'.op = "submit_rating" /\ response.op = "none"
       => /\ USER_SESSION_STATE' = USER_SESSION_STATE
          /\ response'.status = 200
          /\ response'.kind = "rating_saved"
          /\ Len(RATINGS_DATA') = Len(RATINGS_DATA) + 1]_vars

\* the rating of a session in stage rating_request has been accepted and
\* the session is still there
C29_Witness ==
    /\ response.op = "submit_rating"
    /\ response.status = 200
    /\ StageOf(USER_SESSION_STATE, response.sid) = "rating_request"

(***************************************************************************)
(* The chat history (HistorySpec)                                          *)
(***************************************************************************)

\* the history of the session, empty when it has none
HistoryOf(history, s) == IF s \in DOMAIN history THEN history[s] ELSE <<>>

\* C30: after any sequence of operations the chat history of each session
\* id holds at most 50 entries, newest first: an exchange is added in
\* front of the entries the history held, and adding to a full history
\* drops the oldest (the last) entry and keeps the others in their order.
C30_HistoryBounded ==
    [][\A s \in DOMAIN CHAT_HISTORY \cup DOMAIN CHAT_HISTORY' :
           LET old == HistoryOf(CHAT_HISTORY, s)
               new == HistoryOf(CHAT_HISTORY', s)
           IN  /\ Len(new) <= 50
               /\ new # old
                  => /\ new[1].assistant = response'.reply
                     /\ new[1].session_id = response'.sid
                     /\ Tail(new) = SubSeq(old, 1, IF Len(old) < 50
                                                   THEN Len(old) ELSE 49)]_vars

\* the 51st rating of a session has been added to its full history: the
\* history still holds 50 entries, the new one in front of a different one
C30_Witness ==
    /\ response.op = "submit_rating"
    /\ response.status = 200
    /\ Len(RATINGS_DATA) = 51
    /\ Len(CHAT_HISTORY[response.sid]) = 50
    /\ CHAT_HISTORY[response.sid][1].assistant = response.reply
    /\ CHAT_HISTORY[response.sid][1].user # CHAT_HISTORY[response.sid][2].user

(***************************************************************************)
(* Concurrent calls (ConcurrentSpec)                                       *)
(***************************************************************************)

\* the orders in which n calls can run one after the other
Orders(n) == Permutations(1..n)

\* the session store after the calls of the list have run one at a time,
\* from the k-th of the order on
RECURSIVE SerialRun(_, _, _, _)
SerialRun(list, order, k, sessions) ==
    IF k > Len(list) THEN sessions
    ELSE SerialRun(list, order, k + 1,
             process_maha_aastha_query(list[order[k]].text,
                                       list[order[k]].sid,
                                       list[order[k]].lang,
                                       sessions).sessions)

\* C28: the only suspension point a call reaches is the store lookup of
\* the first guard: it lies before the session is read, and the call that
\* is suspended there never writes the stage.  Every read-then-write of a
\* stage runs in one piece, so the session store after any set of
\* concurrent calls is what running them one after the other in some
\* order gives (no lost update).
C28_Serializable ==
    /\ \A c \in 1..Len(calls.list) :
           calls.list[c].lookup => calls.list[c].suspended
    /\ USER_SESSION_STATE \in
           {SerialRun(calls.list, o, 1, calls.base) :
               o \in Orders(Len(calls.list))}

\* three calls of one session have returned: the first was suspended at
\* its lookup while the other two changed the stage one after the other
C28_Witness ==
    /\ Len(calls.list) = 3
    /\ \A c \in 1..3 : /\ calls.list[c].pc = "done"
                        /\ calls.list[c].sid = calls.list[1].sid
    /\ calls.list[1].suspended
    /\ calls.list[1].before = "feedback_question"
    /\ calls.list[2].before = "feedback_question"
    /\ calls.list[3].before = "rating_request"
    /\ calls.list[1].resumed = "waiting_for_ticket_id"
    /\ StageOf(USER_SESSION_STATE, calls.list[1].sid) =
           "waiting_for_ticket_id"

=============================================================================
